---- MODULE Spec2Model ----
(***************************************************************************)
(* Model of the AliOpenKG extraction-and-sampling pipeline:                *)
(*   src/src/process_large_rar.py   (N-Triples run)                        *)
(*   src/src/process_tbox_jsonld.py (JSON-LD / TBox run)                   *)
(*                                                                         *)
(* Strings of the program are modelled as sequences of fragments: a URI    *)
(* such as http://ex/u1 is <<"ex", "/", "u1">>, where "/" and "#" are the  *)
(* separator characters the code splits on and every other fragment is a   *)
(* run of characters holding no separator.  Substring tests of the code    *)
(* ('User' in obj) are fragment-membership tests here.                     *)
(***************************************************************************)
EXTENDS Integers, Sequences, FiniteSets, Bags, TLC

VARIABLES
    \* ---- inputs of process_large_nt_file
    file,               \* the lines of the .nt file, in order
    sample_size,
    chunk_size,
    random_sample,
    \* ---- locals of process_large_nt_file
    pc,                 \* "loop" | "final" | "save" | "done" | "failed"
    line_count,
    valid_line_count,
    sampled_triples,
    current_chunk,
    chunk_line_count,
    entity_map,
    entity_counts,
    relationships,
    \* ---- outputs
    out_file,           \* content of the sample file (opened 'w' at line 134)
    neo4j_files,        \* key -> rows of the CSV written for it
    \* ---- history (not read by the program)
    admitted,           \* line numbers inserted into the sample when read
    chunk_src,          \* line numbers of the entries of current_chunk
    processed,          \* line numbers handed to process_chunk, in order
    rel_log,            \* one entry per triple that reached add_relationship
    draws,              \* the slot each draw of the full reservoir chose, in order
    \* ---- the reservoir over every outcome of the draws (see ReservoirInit)
    r_file,             \* the lines of the stream
    r_size,             \* sample_size
    r_pos,              \* lines read
    r_n,                \* valid_line_count
    r_stop,             \* the scan has stopped
    r_dist,             \* bag of reservoirs: one copy per sequence of draws
    \* ---- inputs of TBoxProcessor.process_jsonld_file
    input_file,         \* the lines of the .jsonld file
    large_file,         \* os.path.getsize(input_file) >= 500 MB
    tb_sample_size,
    tb_random_sample,
    \* ---- position and locals of the JSON-LD run
    tb_pc,              \* "start" | "items" | "lines" | "save" | "done" | "failed"
    tb_pos,             \* lines read (large file) or elements processed (direct)
    in_graph,
    current_item,
    item_count,
    sampled_count,
    graph_data,         \* the elements _process_jsonld_graph iterates
    \* ---- fields of the TBoxProcessor
    entity_mapping,
    tbox_entity_counts,
    tbox_relationships,
    processed_uris,
    tbox_files,         \* key -> rows of the CSV written for it
    \* ---- history (not read by the program)
    handed,             \* one entry per call of _process_jsonld_item
    \* ---- the command-line run (main)
    openable,           \* the input file exists and can be read
    exit_status         \* <<status>> once the process has ended, NoStatus before

ntVars == <<file, sample_size, chunk_size, random_sample, pc, line_count,
            valid_line_count, sampled_triples, current_chunk, chunk_line_count,
            entity_map, entity_counts, relationships, out_file, neo4j_files,
            admitted, chunk_src, processed, rel_log, draws>>

reservoirVars == <<r_file, r_size, r_pos, r_n, r_stop, r_dist>>

tboxVars == <<input_file, large_file, tb_sample_size, tb_random_sample, tb_pc,
              tb_pos, in_graph, current_item, item_count, sampled_count, graph_data,
              entity_mapping, tbox_entity_counts, tbox_relationships, processed_uris,
              tbox_files, handed>>

mainVars == <<openable, exit_status>>

vars == <<ntVars, reservoirVars, tboxVars, mainVars>>

-----------------------------------------------------------------------------
(* Bounds of the model *)
MaxLines == 3
MaxSample == 2
MaxChunk == 2
MaxStream == 5
MaxItems == 3
MaxRecords == 1
MaxVocab == 2
MaxTagged == 1
MaxStop == 11
MaxStopSample == 1
MaxBroken == 2
MaxRepeat == 3

-----------------------------------------------------------------------------
(* String helpers *)

\* 'x' in s
Contains(s, x) == \E i \in DOMAIN s : s[i] = x

\* s.endswith('x')
EndsWith(s, x) == Len(s) > 0 /\ s[Len(s)] = x

\* index of the last occurrence of sep in s, 0 when there is none
LastIndex(s, sep) ==
    IF Contains(s, sep)
    THEN CHOOSE i \in DOMAIN s : s[i] = sep /\ \A k \in DOMAIN s : s[k] = sep => k <= i
    ELSE 0

\* s.split(sep)[-1]
SplitLast(s, sep) == SubSeq(s, LastIndex(s, sep) + 1, Len(s))

\* label = uri.split('/')[-1]; if '#' in label: label = label.split('#')[-1]
LocalName(uri) ==
    LET label == SplitLast(uri, "/")
    IN  IF Contains(label, "#") THEN SplitLast(label, "#") ELSE label

\* str.upper() of one fragment
UpperFragment(w) ==
    CASE w = "group" -> "GROUP"
      [] w = "hasCategory" -> "HASCATEGORY"
      [] w = "hasBrand" -> "HASBRAND"
      [] w = "belongsTo" -> "BELONGSTO"
      [] w = "appliesTo" -> "APPLIESTO"
      [] w = "name" -> "NAME"
      [] w = "type" -> "TYPE"
      [] w = "Name" -> "NAME"
      [] w = "main" -> "MAIN"
      [] OTHER -> w

\* s.upper()
Upper(s) == [i \in DOMAIN s |-> UpperFragment(s[i])]

-----------------------------------------------------------------------------
(* Containers *)

EntityKeys == <<"users", "products", "categories", "brands", "scenes",
                "crowds", "times", "themes", "markets", "placeOfOrigins">>

CountKeys == {"user", "product", "category", "brand", "scene",
              "crowd", "time", "theme", "market", "placeOfOrigin"}

KeySet == {EntityKeys[i] : i \in DOMAIN EntityKeys}

\* Python None
None == <<>>

\* uri in entities   (entities: one per-type dict, in insertion order)
InMap(entities, uri) == \E i \in DOMAIN entities : entities[i].uri = uri

\* entities[uri]
Lookup(entities, uri) == entities[CHOOSE i \in DOMAIN entities : entities[i].uri = uri]

\* The state process_chunk and its callees mutate
\* no exit status: the process is still running
NoStatus == <<>>

ProcState(em, ec, rels, log) ==
    [entity_map |-> em, entity_counts |-> ec, relationships |-> rels,
     raised |-> FALSE, rel_log |-> log]

\* An exception leaves the callee: nothing after it in the caller runs
Raise(st) == [st EXCEPT !.raised = TRUE]

-----------------------------------------------------------------------------
(* Entity resolver *)

process_user_entity(uri, st) ==
    IF ~InMap(st.entity_map["users"], uri)
    THEN [st EXCEPT
            !.entity_map["users"] =
                Append(@, [uri |-> uri,
                           id |-> <<"user", st.entity_counts["user"]>>,
                           label |-> LocalName(uri)]),
            !.entity_counts["user"] = @ + 1]
    ELSE st

process_product_entity_replace(uri, st) ==
    IF ~InMap(st.entity_map["products"], uri)
    THEN [st EXCEPT
            !.entity_map["products"] =
                <<[uri |-> uri,
                   id |-> <<"product", st.entity_counts["product"]>>,
                   label |-> LocalName(uri)]>>,
            !.entity_counts["product"] = @ + 1]
    ELSE st

process_product_entity(uri, st) ==
    IF ~InMap(st.entity_map["products"], uri)
    THEN [st EXCEPT
            !.entity_map["products"] =
                Append(@, [uri |-> uri,
                           id |-> <<"product", st.entity_counts["product"]>>,
                           label |-> LocalName(uri)]),
            !.entity_counts["product"] = @ + 1]
    ELSE st

\* The module defines process_user_entity and process_product_entity only:
\* the other eight names that process_triple calls, and add_property, are
\* bound nowhere, so the call raises NameError.
process_category_entity(uri, st) == Raise(st)
process_brand_entity(uri, st) == Raise(st)
process_scene_entity(uri, st) == Raise(st)
process_crowd_entity(uri, st) == Raise(st)
process_time_entity(uri, st) == Raise(st)
process_theme_entity(uri, st) == Raise(st)
process_market_entity(uri, st) == Raise(st)
process_placeoforigin_entity(uri, st) == Raise(st)
add_property(subject, predicate, obj, st) == Raise(st)

-----------------------------------------------------------------------------
(* Relationship extractor *)

rel_mapping_keep_case(name) ==
    CASE name = <<"hasCategory">> -> <<"BELONGS_TO_CATEGORY">>
      [] name = <<"hasBrand">> -> <<"HAS_BRAND">>
      [] name = <<"belongsTo">> -> <<"BELONGS_TO">>
      [] name = <<"appliesTo">> -> <<"APPLIES_TO">>
      [] OTHER -> name

\* rel_mapping.get(rel_type, rel_type.upper())
rel_mapping(name) ==
    CASE name = <<"hasCategory">> -> <<"BELONGS_TO_CATEGORY">>
      [] name = <<"hasBrand">> -> <<"HAS_BRAND">>
      [] name = <<"belongsTo">> -> <<"BELONGS_TO">>
      [] name = <<"appliesTo">> -> <<"APPLIES_TO">>
      [] name = <<"suitable_for_crowd">> -> <<"SUITABLE_FOR_CROWD">>
      [] name = <<"suitable_for_scene">> -> <<"SUITABLE_FOR_SCENE">>
      [] name = <<"suitable_for_time">> -> <<"SUITABLE_FOR_TIME">>
      [] name = <<"hasTheme">> -> <<"HAS_THEME">>
      [] name = <<"inMarket">> -> <<"IN_MARKET">>
      [] OTHER -> Upper(name)

\* for entity_type, entities in entity_map.items(): if uri in entities: ...; break
FindId(em, uri) ==
    LET hits == {k \in DOMAIN EntityKeys : InMap(em[EntityKeys[k]], uri)}
    IN  IF hits = {}
        THEN None
        ELSE Lookup(em[EntityKeys[CHOOSE k \in hits : \A h \in hits : k <= h]], uri).id

BothFoundEither(from_id, to_id) == from_id # None \/ to_id # None

BothFoundSubjectOnly(from_id, to_id) == from_id # None

\* if from_id and to_id:
BothFound(from_id, to_id) == from_id # None /\ to_id # None

add_relationship(subject_uri, object_uri, predicate, st) ==
    LET rel_type == rel_mapping(LocalName(predicate))
        from_id  == FindId(st.entity_map, subject_uri)
        to_id    == FindId(st.entity_map, object_uri)
        entry    == [s |-> subject_uri, o |-> object_uri, p |-> predicate,
                     resolved |-> /\ \E k \in KeySet : InMap(st.entity_map[k], subject_uri)
                                  /\ \E k \in KeySet : InMap(st.entity_map[k], object_uri)]
        logged   == [st EXCEPT !.rel_log = Append(@, entry)]
    IN  IF BothFound(from_id, to_id)
        THEN [logged EXCEPT !.relationships =
                 Append(@, [from_id |-> from_id, to_id |-> to_id, type |-> rel_type])]
        ELSE logged

-----------------------------------------------------------------------------
(* Triple tokenizer and classifier *)

RelKeywords == {"hasCategory", "hasBrand", "belongsTo", "appliesTo"}

process_triple(subject, predicate, obj, is_uri, st) ==
    IF EndsWith(predicate, "type")
    THEN IF Contains(obj, "User") THEN process_user_entity(subject, st)
         ELSE IF Contains(obj, "Product") THEN process_product_entity(subject, st)
         ELSE IF Contains(obj, "Category") THEN process_category_entity(subject, st)
         ELSE IF Contains(obj, "Brand") THEN process_brand_entity(subject, st)
         ELSE IF Contains(obj, "Scene") THEN process_scene_entity(subject, st)
         ELSE IF Contains(obj, "Crowd") THEN process_crowd_entity(subject, st)
         ELSE IF Contains(obj, "Time") THEN process_time_entity(subject, st)
         ELSE IF Contains(obj, "Theme") THEN process_theme_entity(subject, st)
         ELSE IF Contains(obj, "Market") THEN process_market_entity(subject, st)
         ELSE IF Contains(obj, "PlaceOfOrigin") THEN process_placeoforigin_entity(subject, st)
         ELSE st
    ELSE IF is_uri /\ \E rel \in RelKeywords : Contains(predicate, rel)
    THEN add_relationship(subject, obj, predicate, st)
    ELSE IF ~is_uri
    THEN add_property(subject, predicate, obj, st)
    ELSE st

\* A line of the file, stripped: shape "blank" (empty after strip),
\* "comment" (starts with '#'), "junk" (text the triple pattern does not
\* match) or "triple" (<s> <p> o .), o being <uri> (okind "uri") or a quoted
\* literal with an optional ^^<datatype> / @lang suffix (okind "literal").
MkLine(shape, s, p, o, okind) ==
    [shape |-> shape, s |-> s, p |-> p, o |-> o, okind |-> okind]

\* if not line or line.startswith('#'): continue
IsSkipped(line) == line.shape \in {"blank", "comment"}

\* pattern.match(line)
Matches(line) == line.shape = "triple"

process_line_strict(line, st) ==
    IF ~Matches(line)
    THEN Raise(st)
    ELSE process_triple(line.s, line.p, line.o, line.okind = "uri", st)

\* One iteration of the loop of process_chunk
process_line(line, st) ==
    IF ~Matches(line)
    THEN st
    ELSE LET is_uri == line.okind = "uri"
             \* obj[1:-1] for a URI, the quoted value for a literal
             obj == line.o
         IN  process_triple(line.s, line.p, obj, is_uri, st)

process_chunk_first(chunk, st) ==
    IF chunk = <<>> \/ st.raised
    THEN st
    ELSE process_line(Head(chunk), st)

\* lines 232-270: for line in chunk, in order; an exception ends the loop
RECURSIVE process_chunk(_, _)
process_chunk(chunk, st) ==
    IF chunk = <<>> \/ st.raised
    THEN st
    ELSE process_chunk(Tail(chunk), process_line(Head(chunk), st))

-----------------------------------------------------------------------------
(* Sampling engine *)

ReservoirStepAppend(sampled, line, n, j, size) ==
    IF Len(sampled) < size \/ j < size
    THEN [sampled |-> Append(sampled, line), took |-> TRUE, stop |-> FALSE]
    ELSE [sampled |-> sampled, took |-> FALSE, stop |-> n >= size * 10]

ReservoirStepNoStop(sampled, line, n, j, size) ==
    IF Len(sampled) < size
    THEN [sampled |-> Append(sampled, line), took |-> TRUE, stop |-> FALSE]
    ELSE [sampled |-> IF j < size THEN [sampled EXCEPT ![j + 1] = line] ELSE sampled,
          took |-> j < size,
          stop |-> n > size * 10]

\* lines 151-168: the n-th valid line under reservoir sampling, j the draw
ReservoirStep(sampled, line, n, j, size) ==
    IF Len(sampled) < size
    THEN [sampled |-> Append(sampled, line), took |-> TRUE, stop |-> FALSE]
    ELSE [sampled |-> IF j < size THEN [sampled EXCEPT ![j + 1] = line] ELSE sampled,
          took |-> j < size,
          stop |-> n >= size * 10]

HeadStepOffByOne(sampled, line, size) ==
    IF Len(sampled) <= size
    THEN [sampled |-> Append(sampled, line), took |-> TRUE, stop |-> FALSE]
    ELSE [sampled |-> sampled, took |-> FALSE, stop |-> TRUE]

\* lines 171-179: head sampling
HeadStep(sampled, line, size) ==
    IF Len(sampled) < size
    THEN [sampled |-> Append(sampled, line), took |-> TRUE, stop |-> FALSE]
    ELSE [sampled |-> sampled, took |-> FALSE, stop |-> TRUE]

DrawsInclusive(sampled, n, size, rnd) ==
    IF rnd /\ Len(sampled) >= size THEN 0 .. n ELSE {0}

\* if j < sample_size: the slot a draw overwrites; sample_size stands for every
\* draw that overwrites none
SlotOf(j, size) == IF j < size THEN j ELSE size

\* j = random.randint(0, valid_line_count - 1), drawn only when the reservoir is full
Draws(sampled, n, size, rnd) ==
    IF rnd /\ Len(sampled) >= size THEN 0 .. (n - 1) ELSE {0}

ChunkFullLate(count, size) == count > size

\* if chunk_line_count >= chunk_size:
ChunkFull(count, size) == count >= size

ChunkAfterAlways(chunk, took, line) == Append(chunk, line)

\* current_chunk.append(line), only where the line entered the sample
ChunkAfter(chunk, took, line) ==
    IF took THEN Append(chunk, line) ELSE chunk

-----------------------------------------------------------------------------
(* Tabular writer *)

EntityLabel(key) ==
    CASE key = "users" -> "User"
      [] key = "products" -> "Product"
      [] key = "categories" -> "Category"
      [] key = "brands" -> "Brand"
      [] key = "scenes" -> "Scene"

WrittenKeys == {"users", "products", "categories", "brands", "scenes"}

save_to_neo4j_format_last(em, rels) ==
    LET ekeys == {k \in WrittenKeys : em[k] # <<>>}
        rkeys == IF rels # <<>> THEN {"relationships"} ELSE {}
    IN  [k \in ekeys \cup rkeys |->
            IF k = "relationships"
            THEN <<<<rels[Len(rels)].from_id, rels[Len(rels)].to_id, rels[Len(rels)].type>>>>
            ELSE <<<<em[k][Len(em[k])].id, em[k][Len(em[k])].label>>
                   \o (IF k = "users" THEN <<<<>>, <<>>, <<>>>> ELSE <<>>)
                   \o <<EntityLabel(k)>>>>]

\* lines 350-427: one file per non-empty entity list, one row per record
save_to_neo4j_format(em, rels) ==
    LET ekeys == {k \in WrittenKeys : em[k] # <<>>}
        rkeys == IF rels # <<>> THEN {"relationships"} ELSE {}
    IN  [k \in ekeys \cup rkeys |->
            IF k = "relationships"
            THEN [i \in DOMAIN rels |-> <<rels[i].from_id, rels[i].to_id, rels[i].type>>]
            ELSE [i \in DOMAIN em[k] |->
                    <<em[k][i].id, em[k][i].label>>
                    \o (IF k = "users" THEN <<<<>>, <<>>, <<>>>> ELSE <<>>)
                    \o <<EntityLabel(k)>>]]

NoFiles == [k \in {} |-> <<>>]

-----------------------------------------------------------------------------
(* Inputs *)

U1 == <<"ex", "/", "u1">>
P1 == <<"ex", "/", "p1">>
C1 == <<"ex", "/", "c1">>
ExType == <<"ex", "/", "type">>
ExName == <<"ex", "/", "name">>
ExHasCategory == <<"ex", "/", "hasCategory">>
SchemaUser == <<"schema", "/", "User">>
SchemaProduct == <<"schema", "/", "Product">>
SchemaCategory == <<"schema", "/", "Category">>

BlankLine == MkLine("blank", <<>>, <<>>, <<>>, "none")
CommentLine == MkLine("comment", <<>>, <<>>, <<>>, "none")
JunkLine == MkLine("junk", <<>>, <<>>, <<>>, "none")
TypeLine(s, t) == MkLine("triple", s, ExType, t, "uri")
RelLine(s, o) == MkLine("triple", s, ExHasCategory, o, "uri")
NameLine(s) == MkLine("triple", s, ExName, <<"Alice">>, "literal")

Alphabet ==
    {BlankLine, CommentLine, JunkLine,
     TypeLine(U1, SchemaUser), TypeLine(U1, SchemaProduct), TypeLine(P1, SchemaProduct),
     TypeLine(C1, SchemaCategory), RelLine(U1, P1), NameLine(U1)}

Files(alphabet, maxlen) == UNION {[1 .. n -> alphabet] : n \in 0 .. maxlen}

-----------------------------------------------------------------------------
(* process_large_nt_file *)

\* No reservoir census runs beside a run of the program
ReservoirIdle ==
    /\ r_file = <<>>
    /\ r_size = 0
    /\ r_pos = 0
    /\ r_n = 0
    /\ r_stop = TRUE
    /\ r_dist = EmptyBag

NtIdle ==
    /\ file = <<>>
    /\ sample_size = 0
    /\ chunk_size = 1
    /\ random_sample = FALSE
    /\ pc = "idle"
    /\ line_count = 0
    /\ valid_line_count = 0
    /\ sampled_triples = <<>>
    /\ current_chunk = <<>>
    /\ chunk_line_count = 0
    /\ entity_map = [k \in KeySet |-> <<>>]
    /\ entity_counts = [k \in CountKeys |-> 0]
    /\ relationships = <<>>
    /\ out_file = <<>>
    /\ neo4j_files = NoFiles
    /\ admitted = <<>>
    /\ chunk_src = <<>>
    /\ processed = <<>>
    /\ rel_log = <<>>
    /\ draws = <<>>

\* a file that cannot be opened has no lines to read
NtInit ==
    /\ file \in (IF openable THEN Files(Alphabet, MaxLines) ELSE {<<>>})
    /\ sample_size \in 0 .. MaxSample
    /\ chunk_size \in 1 .. MaxChunk
    /\ random_sample \in BOOLEAN
    /\ pc = "start"
    /\ line_count = 0
    /\ valid_line_count = 0
    /\ sampled_triples = <<>>
    /\ current_chunk = <<>>
    /\ chunk_line_count = 0
    /\ entity_map = [k \in KeySet |-> <<>>]
    /\ entity_counts = [k \in CountKeys |-> 0]
    /\ relationships = <<>>
    /\ out_file = <<>>
    /\ neo4j_files = NoFiles
    /\ admitted = <<>>
    /\ chunk_src = <<>>
    /\ processed = <<>>
    /\ rel_log = <<>>
    /\ draws = <<>>

\* except Exception: ... return None, {}
Fail ==
    /\ pc' = "failed"
    /\ out_file' = <<>>
    /\ neo4j_files' = NoFiles

\* line 120: with open(file_path, 'r') as f, open(output_file, 'w') as out_f;
\* FileNotFoundError / PermissionError reach the except clause of line 226
OpenFiles ==
    /\ UNCHANGED <<reservoirVars, tboxVars, mainVars>>
    /\ pc = "start"
    /\ IF openable
       THEN pc' = "loop" /\ UNCHANGED <<out_file, neo4j_files>>
       ELSE Fail
    /\ UNCHANGED <<file, sample_size, chunk_size, random_sample, line_count,
                   valid_line_count, sampled_triples, current_chunk,
                   chunk_line_count, entity_map, entity_counts, relationships,
                   admitted, chunk_src, processed, rel_log, draws>>

\* main of process_large_rar.py, lines 503-541: process_large_nt_file has
\* returned (it catches every Exception itself), so the try block ends with
\* return 0; sys.exit(main())
NtMain ==
    /\ UNCHANGED <<reservoirVars, tboxVars, ntVars>>
    /\ pc \in {"done", "failed"}
    /\ exit_status = NoStatus
    /\ exit_status' = <<0>>
    /\ UNCHANGED openable

\* lines 138-144: a blank or comment line is counted and skipped
SkipLine ==
    /\ UNCHANGED <<reservoirVars, tboxVars, mainVars>>
    /\ pc = "loop"
    /\ line_count < Len(file)
    /\ IsSkipped(file[line_count + 1])
    /\ line_count' = line_count + 1
    /\ UNCHANGED <<file, sample_size, chunk_size, random_sample, pc,
                   valid_line_count, sampled_triples, current_chunk,
                   chunk_line_count, entity_map, entity_counts, relationships,
                   out_file, neo4j_files, admitted, chunk_src, processed, rel_log, draws>>

\* lines 138-199: one iteration of the scan over a valid line
ScanLine ==
    /\ UNCHANGED <<reservoirVars, tboxVars, mainVars>>
    /\ pc = "loop"
    /\ line_count < Len(file)
    /\ ~IsSkipped(file[line_count + 1])
    /\ LET line == file[line_count + 1]
           n    == valid_line_count + 1
       IN  \E j \in Draws(sampled_triples, n, sample_size, random_sample) :
           LET s     == IF random_sample
                        THEN ReservoirStep(sampled_triples, line, n, j, sample_size)
                        ELSE HeadStep(sampled_triples, line, sample_size)
               chunk == ChunkAfter(current_chunk, s.took, line)
               src   == ChunkAfter(chunk_src, s.took, line_count + 1)
               clc   == IF s.took THEN chunk_line_count + 1 ELSE chunk_line_count
               full  == ~s.stop /\ ChunkFull(clc, chunk_size)
               st    == IF full
                        THEN process_chunk(chunk, ProcState(entity_map, entity_counts,
                                                            relationships, rel_log))
                        ELSE ProcState(entity_map, entity_counts, relationships, rel_log)
           IN  /\ line_count' = line_count + 1
               /\ valid_line_count' = n
               /\ sampled_triples' = s.sampled
               /\ admitted' = IF s.took THEN Append(admitted, line_count + 1) ELSE admitted
               /\ processed' = IF full THEN processed \o src ELSE processed
               /\ entity_map' = st.entity_map
               /\ entity_counts' = st.entity_counts
               /\ relationships' = st.relationships
               /\ rel_log' = st.rel_log
               /\ draws' = IF random_sample /\ Len(sampled_triples) >= sample_size
                            THEN Append(draws, SlotOf(j, sample_size))
                            ELSE draws
               /\ IF st.raised
                  THEN /\ Fail
                       /\ current_chunk' = chunk
                       /\ chunk_src' = src
                       /\ chunk_line_count' = clc
                  ELSE /\ pc' = IF s.stop THEN "final" ELSE "loop"
                       /\ current_chunk' = IF full THEN <<>> ELSE chunk
                       /\ chunk_src' = IF full THEN <<>> ELSE src
                       /\ chunk_line_count' = IF full THEN 0 ELSE clc
                       /\ UNCHANGED <<out_file, neo4j_files>>
    /\ UNCHANGED <<file, sample_size, chunk_size, random_sample>>

\* the for loop runs out of lines
EndOfFile ==
    /\ UNCHANGED <<reservoirVars, tboxVars, mainVars>>
    /\ pc = "loop"
    /\ line_count = Len(file)
    /\ pc' = "final"
    /\ UNCHANGED <<file, sample_size, chunk_size, random_sample, line_count,
                   valid_line_count, sampled_triples, current_chunk,
                   chunk_line_count, entity_map, entity_counts, relationships,
                   out_file, neo4j_files, admitted, chunk_src, processed, rel_log, draws>>

\* lines 201-211: the last, incomplete chunk, then the sample file
FlushAndWrite ==
    /\ UNCHANGED <<reservoirVars, tboxVars, mainVars>>
    /\ pc = "final"
    /\ LET st == IF current_chunk # <<>>
                 THEN process_chunk(current_chunk, ProcState(entity_map, entity_counts,
                                                             relationships, rel_log))
                 ELSE ProcState(entity_map, entity_counts, relationships, rel_log)
       IN  /\ processed' = IF current_chunk # <<>> THEN processed \o chunk_src ELSE processed
           /\ entity_map' = st.entity_map
           /\ entity_counts' = st.entity_counts
           /\ relationships' = st.relationships
           /\ rel_log' = st.rel_log
           /\ IF st.raised
              THEN Fail
              ELSE /\ pc' = "save"
                   /\ out_file' = sampled_triples
                   /\ UNCHANGED neo4j_files
    /\ UNCHANGED <<file, sample_size, chunk_size, random_sample, line_count,
                   valid_line_count, sampled_triples, current_chunk,
                   chunk_line_count, admitted, chunk_src, draws>>

\* lines 221-224: the CSV files, and the return
SaveNeo4j ==
    /\ UNCHANGED <<reservoirVars, tboxVars, mainVars>>
    /\ pc = "save"
    /\ neo4j_files' = save_to_neo4j_format(entity_map, relationships)
    /\ pc' = "done"
    /\ UNCHANGED <<file, sample_size, chunk_size, random_sample, line_count,
                   valid_line_count, sampled_triples, current_chunk,
                   chunk_line_count, entity_map, entity_counts, relationships,
                   out_file, admitted, chunk_src, processed, rel_log, draws>>

-----------------------------------------------------------------------------
(* JSON text.  A line of a JSON-LD file is a sequence of tokens: one space *)
(* (t = "sp"), a punctuation mark ("{", "}", "]", ","), the text           *)
(* "@graph" : [ (t = "graph["), or a member "k" : "v" (t = "pair").        *)

Tok(t, k, v) == [t |-> t, k |-> k, v |-> v]
SP == Tok("sp", "", <<>>)
LBRACE == Tok("{", "", <<>>)
RBRACE == Tok("}", "", <<>>)
RBRACKET == Tok("]", "", <<>>)
COMMA == Tok(",", "", <<>>)
GRAPHOPEN == Tok("graph[", "", <<>>)
Pair(k, v) == Tok("pair", k, v)

RECURSIVE LStrip(_, _)
LStrip(s, c) == IF s # <<>> /\ Head(s) = c THEN LStrip(Tail(s), c) ELSE s

\* s.rstrip(c)
RECURSIVE RStrip(_, _)
RStrip(s, c) ==
    IF s # <<>> /\ s[Len(s)] = c THEN RStrip(SubSeq(s, 1, Len(s) - 1), c) ELSE s

\* line.strip()
Strip(s) == RStrip(LStrip(s, SP), SP)

\* s.startswith(prefix)
StartsWith(s, prefix) ==
    Len(s) >= Len(prefix) /\ SubSeq(s, 1, Len(prefix)) = prefix

\* a dict of json: a function from its keys
EmptyDict == [x \in {} |-> <<>>]
Put(d, k, v) == [x \in DOMAIN d \cup {k} |-> IF x = k THEN v ELSE d[x]]

\* dict.get(k), None when absent
Get(d, k) == IF k \in DOMAIN d THEN d[k] ELSE None

Bad == [ok |-> FALSE, val |-> <<>>, next |-> 0]

\* The parser of json.loads over the tokens, white space dropped:
\*   object   := "{" "}" | "{" member { "," member } "}"
\*   member   := pair | "@graph" : [ elements ]
\*   elements := "]" | object { "," object } "]"
RECURSIVE ParseObject(_, _), ParseMember(_, _, _), AfterMember(_, _, _)
RECURSIVE ParseElement(_, _, _), AfterElement(_, _, _)

ParseObject(toks, i) ==
    IF i > Len(toks) \/ toks[i].t # "{" THEN Bad
    ELSE IF i + 1 <= Len(toks) /\ toks[i + 1].t = "}"
    THEN [ok |-> TRUE, val |-> EmptyDict, next |-> i + 2]
    ELSE ParseMember(toks, i + 1, EmptyDict)

ParseMember(toks, i, acc) ==
    IF i > Len(toks) THEN Bad
    ELSE IF toks[i].t = "pair"
    THEN AfterMember(toks, i + 1, Put(acc, toks[i].k, toks[i].v))
    ELSE IF toks[i].t = "graph["
    THEN LET a == IF i + 1 <= Len(toks) /\ toks[i + 1].t = "]"
                  THEN [ok |-> TRUE, val |-> <<>>, next |-> i + 2]
                  ELSE ParseElement(toks, i + 1, <<>>)
         IN  IF a.ok THEN AfterMember(toks, a.next, Put(acc, "@graph", a.val)) ELSE Bad
    ELSE Bad

AfterMember(toks, i, acc) ==
    IF i > Len(toks) THEN Bad
    ELSE IF toks[i].t = "}" THEN [ok |-> TRUE, val |-> acc, next |-> i + 1]
    ELSE IF toks[i].t = "," THEN ParseMember(toks, i + 1, acc)
    ELSE Bad

ParseElement(toks, i, acc) ==
    LET o == ParseObject(toks, i)
    IN  IF o.ok THEN AfterElement(toks, o.next, Append(acc, o.val)) ELSE Bad

AfterElement(toks, i, acc) ==
    IF i > Len(toks) THEN Bad
    ELSE IF toks[i].t = "]" THEN [ok |-> TRUE, val |-> acc, next |-> i + 1]
    ELSE IF toks[i].t = "," THEN ParseElement(toks, i + 1, acc)
    ELSE Bad

\* json.loads(text): the dict, or ok = FALSE where it raises
json_loads(text) ==
    LET toks == SelectSeq(text, LAMBDA x : x # SP)
        o    == ParseObject(toks, 1)
    IN  IF o.ok /\ o.next = Len(toks) + 1 THEN o ELSE Bad

RECURSIVE Flatten(_)
Flatten(ss) == IF ss = <<>> THEN <<>> ELSE Head(ss) \o Flatten(Tail(ss))

\* json.load(f): the whole file as one text
json_load(lines) == json_loads(Flatten(lines))

-----------------------------------------------------------------------------
(* TBoxProcessor *)

MappingKeys == {"classes", "concepts", "properties"}

TBoxCountKeys == {"class", "concept", "property", "subclass_relation",
                  "broader_relation", "subproperty_relation", "other_relation"}

OwlClass == <<"owl:Class">>
OwlClassIri == <<"http:", "/", "/", "www.w3.org", "/", "2002", "/", "07", "/", "owl", "#", "Class">>
SkosConcept == <<"skos:Concept">>
SkosConceptIri == <<"http:", "/", "/", "www.w3.org", "/", "2004", "/", "02", "/", "skos", "/", "core", "#", "Concept">>
RdfProperty == <<"rdf:Property">>
OwlObjectProperty == <<"owl:ObjectProperty">>
OwlDatatypeProperty == <<"owl:DatatypeProperty">>

LabelKeys == <<"rdfs:label", "http://www.w3.org/2000/01/rdf-schema#label", "skos:prefLabel">>
CommentKeys == <<"rdfs:comment", "http://www.w3.org/2000/01/rdf-schema#comment">>

\* for key in keys: if key in item: ...; break      (the values are strings)
FirstPresent(item, keys) ==
    LET hits == {i \in DOMAIN keys : keys[i] \in DOMAIN item}
    IN  IF hits = {} THEN None
        ELSE item[keys[CHOOSE i \in hits : \A h \in hits : i <= h]]

\* The state _process_jsonld_item and its callees mutate
\* (branch: the branch of lines 295-300 the last call took, "skipped" when
\* the call returned before them)
TBoxState(em, ec, rels, seen) ==
    [entity_mapping |-> em, entity_counts |-> ec, relationships |-> rels,
     processed_uris |-> seen, raised |-> FALSE, branch |-> "skipped"]

_process_class_no_increment(uri, item, label, st) ==
    IF InMap(st.entity_mapping["classes"], uri)
    THEN st
    ELSE [st EXCEPT
            !.entity_mapping["classes"] =
                Append(@, [id |-> <<"class", st.entity_counts["class"]>>,
                           uri |-> uri,
                           name |-> IF label # None /\ label # <<>> THEN label
                                    ELSE LocalName(uri),
                           label |-> label,
                           description |-> FirstPresent(item, CommentKeys)])]

_process_class(uri, item, label, st) ==
    IF InMap(st.entity_mapping["classes"], uri)
    THEN st
    ELSE [st EXCEPT
            !.entity_mapping["classes"] =
                Append(@, [id |-> <<"class", st.entity_counts["class"]>>,
                           uri |-> uri,
                           name |-> IF label # None /\ label # <<>> THEN label
                                    ELSE LocalName(uri),
                           label |-> label,
                           description |-> FirstPresent(item, CommentKeys)]),
            !.entity_counts["class"] = @ + 1]

\* TBoxProcessor defines neither _process_concept, _process_property nor
\* _process_relationships: the attribute lookup raises AttributeError.
_process_concept(uri, item, label, st) == Raise(st)
_process_property(uri, item, label, st) == Raise(st)
_process_relationships(uri, item, st) == Raise(st)

\* lines 295-300: the branch taken for the list of types
Classify(types) ==
    IF types \cap {OwlClass, OwlClassIri} # {} THEN "class"
    ELSE IF types \cap {SkosConcept, SkosConceptIri} # {} THEN "concept"
    ELSE IF types \cap {RdfProperty, OwlObjectProperty, OwlDatatypeProperty} # {}
    THEN "property"
    ELSE "none"

_process_jsonld_item_again(item, st) ==
    LET uri == Get(item, "@id")
    IN  IF uri = None \/ uri = <<>> THEN st
        ELSE LET types == IF "@type" \in DOMAIN item THEN {item["@type"]} ELSE {}
                 st1   == [st EXCEPT !.processed_uris = @ \cup {uri},
                                     !.branch = Classify(types)]
                 label == FirstPresent(item, LabelKeys)
                 st2   == CASE st1.branch = "class" -> _process_class(uri, item, label, st1)
                            [] st1.branch = "concept" -> _process_concept(uri, item, label, st1)
                            [] st1.branch = "property" -> _process_property(uri, item, label, st1)
                            [] OTHER -> st1
             IN  IF st2.raised THEN st2 ELSE _process_relationships(uri, item, st2)

\* lines 257-303
\* item is a dict: every element of the inputs below is a JSON object
_process_jsonld_item(item, st) ==
    LET uri == Get(item, "@id")
    IN  IF uri = None \/ uri = <<>> THEN st
        ELSE IF uri \in st.processed_uris THEN st
        ELSE LET \* a string @type becomes the list of that one string
                 types == IF "@type" \in DOMAIN item THEN {item["@type"]} ELSE {}
                 st1   == [st EXCEPT !.processed_uris = @ \cup {uri},
                                     !.branch = Classify(types)]
                 label == FirstPresent(item, LabelKeys)
                 st2   == CASE st1.branch = "class" -> _process_class(uri, item, label, st1)
                            [] st1.branch = "concept" -> _process_concept(uri, item, label, st1)
                            [] st1.branch = "property" -> _process_property(uri, item, label, st1)
                            [] OTHER -> st1
             IN  IF st2.raised THEN st2 ELSE _process_relationships(uri, item, st2)

TBoxLabel(key) ==
    CASE key = "classes" -> "Class"
      [] key = "concepts" -> "Concept"
      [] key = "properties" -> "Property"

\* x or ''
OrEmpty(x) == IF x = None THEN <<>> ELSE x

_save_to_csv(em, rels) ==
    LET ekeys == {k \in MappingKeys : em[k] # <<>>}
        rkeys == IF rels # <<>> THEN {"relationships"} ELSE {}
    IN  [k \in ekeys \cup rkeys |->
            IF k = "relationships"
            THEN [i \in DOMAIN rels |->
                    <<rels[i].from_id, rels[i].to_id, rels[i].type, Get(rels[i], "uri")>>]
            ELSE [i \in DOMAIN em[k] |->
                    <<em[k][i].id, em[k][i].uri, em[k][i].name,
                      OrEmpty(em[k][i].label), OrEmpty(em[k][i].description)>>
                    \o (IF k = "properties"
                        THEN <<Get(em[k][i], "property_type")>> ELSE <<>>)
                    \o <<TBoxLabel(k)>>]]

\* random.sample(graph_data, k): k elements at distinct positions, in any order
RandomSamples(list, k) ==
    {[i \in 1 .. k |-> list[f[i]]] :
        f \in {g \in [1 .. k -> DOMAIN list] : \A a, b \in 1 .. k : a # b => g[a] # g[b]}}

\* lines 244-251: the elements _process_jsonld_graph goes on to process
SelectGraph(list, size, rnd) ==
    IF rnd
    THEN IF Len(list) > size THEN RandomSamples(list, size) ELSE {list}
    ELSE IF size > 0 /\ Len(list) > size THEN {SubSeq(list, 1, size)} ELSE {list}

-----------------------------------------------------------------------------
(* JSON-LD inputs *)

B1 == <<"http:", "/", "/", "ex", "/", "b1">>
B2 == <<"http:", "/", "/", "ex", "/", "b2">>

ItemClassB1 == <<Pair("@id", B1), Pair("@type", OwlClass), Pair("rdfs:label", <<"Nike">>)>>
ItemClassB2 == <<Pair("@id", B2), Pair("@type", OwlClassIri)>>
ItemConceptB2 == <<Pair("@id", B2), Pair("@type", SkosConcept)>>
ItemNoId == <<Pair("@type", OwlClass)>>

ItemSet == {ItemClassB1, ItemClassB2, ItemConceptB2, ItemNoId}

Indent(n, toks) == [i \in 1 .. n |-> SP] \o toks

\* the members of one item, one per line, comma-separated
MemberLines(item, n, lastComma) ==
    [i \in DOMAIN item |->
        Indent(n, <<item[i]>> \o (IF i < Len(item) \/ lastComma THEN <<COMMA>> ELSE <<>>))]

\* A well-formed document, printed with an indent of two:
\*   {
\*     "@graph" : [
\*       {
\*         "@id" : ...,
\*       },
\*     ]
\*   }
RECURSIVE PrettyItems(_)
PrettyItems(items) ==
    IF items = <<>> THEN <<>>
    ELSE <<Indent(4, <<LBRACE>>)>>
         \o MemberLines(Head(items), 6, FALSE)
         \o <<Indent(4, <<RBRACE>> \o (IF Len(items) > 1 THEN <<COMMA>> ELSE <<>>))>>
         \o PrettyItems(Tail(items))

Pretty(items) ==
    <<<<LBRACE>>, Indent(2, <<GRAPHOPEN>>)>>
    \o PrettyItems(items)
    \o <<Indent(2, <<RBRACKET>>), <<RBRACE>>>>

\* A file that holds each item as the bare members of a "@graph" : [ block
\* of its own (not a JSON document)
RECURSIVE BareItems(_)
BareItems(items) ==
    IF items = <<>> THEN <<>>
    ELSE <<Indent(2, <<GRAPHOPEN>>)>>
         \o MemberLines(Head(items), 4, TRUE)
         \o <<Indent(2, <<RBRACKET>>)>>
         \o BareItems(Tail(items))

Bare(items) == <<<<LBRACE>>>> \o BareItems(items) \o <<<<RBRACE>>>>

Documents ==
    LET lists == UNION {[1 .. n -> ItemSet] : n \in 0 .. MaxItems}
    IN  {Pretty(l) : l \in lists} \cup {Bare(l) : l \in lists}

-----------------------------------------------------------------------------
(* process_jsonld_file *)

TBoxIdle ==
    /\ input_file = <<>>
    /\ large_file = FALSE
    /\ tb_sample_size = 0
    /\ tb_random_sample = FALSE
    /\ tb_pc = "idle"
    /\ tb_pos = 0
    /\ in_graph = FALSE
    /\ current_item = <<>>
    /\ item_count = 0
    /\ sampled_count = 0
    /\ graph_data = <<>>
    /\ entity_mapping = [k \in MappingKeys |-> <<>>]
    /\ tbox_entity_counts = [k \in TBoxCountKeys |-> 0]
    /\ tbox_relationships = <<>>
    /\ processed_uris = {}
    /\ tbox_files = NoFiles
    /\ handed = <<>>

\* a file that cannot be opened has no lines to read
TBoxInit ==
    /\ input_file \in (IF openable THEN Documents ELSE {<<>>})
    /\ large_file \in BOOLEAN
    /\ tb_sample_size \in 0 .. MaxSample
    /\ tb_random_sample \in BOOLEAN
    /\ tb_pc = "start"
    /\ tb_pos = 0
    /\ in_graph = FALSE
    /\ current_item = <<>>
    /\ item_count = 0
    /\ sampled_count = 0
    /\ graph_data = <<>>
    /\ entity_mapping = [k \in MappingKeys |-> <<>>]
    /\ tbox_entity_counts = [k \in TBoxCountKeys |-> 0]
    /\ tbox_relationships = <<>>
    /\ processed_uris = {}
    /\ tbox_files = NoFiles
    /\ handed = <<>>

CurrentTBox ==
    TBoxState(entity_mapping, tbox_entity_counts, tbox_relationships, processed_uris)

\* the processor's fields after a call that left them as st
TBoxStore(st) ==
    /\ entity_mapping' = st.entity_mapping
    /\ tbox_entity_counts' = st.entity_counts
    /\ tbox_relationships' = st.relationships
    /\ processed_uris' = st.processed_uris

TBoxKeep == UNCHANGED <<entity_mapping, tbox_entity_counts, tbox_relationships,
                        processed_uris>>

\* what one call of _process_jsonld_item was given, and what it left
Handed(item, st) ==
    Append(handed, [item |-> item, entity_mapping |-> st.entity_mapping,
                    entity_counts |-> st.entity_counts, raised |-> st.raised,
                    branch |-> st.branch])

\* lines 110-120: a file under 500 MB is loaded whole
\* line 111: os.path.getsize raises OSError for a missing file, lines 112
\* and 160: open raises for an unreadable one; both reach line 135
OpenFails ==
    /\ tb_pc = "start"
    /\ ~openable
    /\ tb_pc' = "failed"
    /\ TBoxKeep
    /\ UNCHANGED <<input_file, large_file, tb_sample_size, tb_random_sample, tb_pos,
                   in_graph, current_item, item_count, sampled_count, graph_data,
                   tbox_files, handed>>
    /\ UNCHANGED <<ntVars, reservoirVars, mainVars>>

\* main of process_tbox_jsonld.py, lines 446-473: process_jsonld_file has
\* returned, main returns None and the script ends: status 0
TBoxMain ==
    /\ tb_pc \in {"done", "failed"}
    /\ exit_status = NoStatus
    /\ exit_status' = <<0>>
    /\ UNCHANGED <<ntVars, reservoirVars, tboxVars, openable>>

LoadDirect ==
    /\ tb_pc = "start"
    /\ openable
    /\ ~large_file
    /\ LET data == json_load(input_file)
       IN  IF ~data.ok
           THEN tb_pc' = "failed" /\ graph_data' = graph_data
           ELSE IF "@graph" \notin DOMAIN data.val \/ data.val["@graph"] = <<>>
           THEN tb_pc' = "save" /\ graph_data' = graph_data
           ELSE /\ tb_pc' = "items"
                /\ graph_data' \in SelectGraph(data.val["@graph"], tb_sample_size,
                                              tb_random_sample)
    /\ TBoxKeep
    /\ UNCHANGED <<input_file, large_file, tb_sample_size, tb_random_sample, tb_pos,
                   in_graph, current_item, item_count, sampled_count, tbox_files, handed>>
    /\ UNCHANGED <<ntVars, reservoirVars, mainVars>>

\* lines 254-255: one element of the loop of _process_jsonld_graph; an
\* exception leaves the loop and reaches the except clause of line 135
DirectItem ==
    /\ tb_pc = "items"
    /\ tb_pos < Len(graph_data)
    /\ LET st == _process_jsonld_item(graph_data[tb_pos + 1], CurrentTBox)
       IN  /\ TBoxStore(st)
           /\ handed' = Handed(graph_data[tb_pos + 1], st)
           /\ tb_pc' = IF st.raised THEN "failed" ELSE "items"
    /\ tb_pos' = tb_pos + 1
    /\ UNCHANGED <<input_file, large_file, tb_sample_size, tb_random_sample,
                   in_graph, current_item, item_count, sampled_count, graph_data,
                   tbox_files>>
    /\ UNCHANGED <<ntVars, reservoirVars, mainVars>>

DirectEnd ==
    /\ tb_pc = "items"
    /\ tb_pos = Len(graph_data)
    /\ tb_pc' = "save"
    /\ TBoxKeep
    /\ UNCHANGED <<input_file, large_file, tb_sample_size, tb_random_sample, tb_pos,
                   in_graph, current_item, item_count, sampled_count, graph_data,
                   tbox_files, handed>>
    /\ UNCHANGED <<ntVars, reservoirVars, mainVars>>

\* lines 120-124: a larger file is scanned line by line
OpenLarge ==
    /\ tb_pc = "start"
    /\ openable
    /\ large_file
    /\ tb_pc' = "lines"
    /\ TBoxKeep
    /\ UNCHANGED <<input_file, large_file, tb_sample_size, tb_random_sample, tb_pos,
                   in_graph, current_item, item_count, sampled_count, graph_data,
                   tbox_files, handed>>
    /\ UNCHANGED <<ntVars, reservoirVars, mainVars>>

\* random.random() < sample_size / (item_count + sample_size), item_count >= 1
RandomTakes(size) == IF size > 0 THEN BOOLEAN ELSE {FALSE}

\* lines 174-191 and 200-221: the buffer is parsed and the item sampled;
\* an exception of the parse or of the item is caught here
FlushItem(buffer) ==
    LET parsed == json_loads(<<LBRACE>> \o RStrip(buffer, COMMA) \o <<RBRACE>>)
    IN  IF ~parsed.ok
        THEN /\ TBoxKeep
             /\ UNCHANGED <<item_count, sampled_count, handed>>
        ELSE /\ item_count' = item_count + 1
             /\ \E take \in (IF tb_random_sample THEN RandomTakes(tb_sample_size)
                             ELSE {sampled_count < tb_sample_size}) :
                   IF take
                   THEN LET st == _process_jsonld_item(parsed.val, CurrentTBox)
                        IN  /\ TBoxStore(st)
                            /\ handed' = Handed(parsed.val, st)
                            /\ sampled_count' = IF st.raised THEN sampled_count
                                                ELSE sampled_count + 1
                   ELSE /\ TBoxKeep
                        /\ UNCHANGED <<sampled_count, handed>>

\* lines 161-225: one line of the scan
LargeLine ==
    /\ tb_pc = "lines"
    /\ tb_pos < Len(input_file)
    /\ tb_pos' = tb_pos + 1
    /\ LET line == Strip(input_file[tb_pos + 1])
       IN  IF Contains(line, GRAPHOPEN)
           THEN /\ in_graph' = TRUE
                /\ TBoxKeep
                /\ UNCHANGED <<current_item, item_count, sampled_count, handed>>
           ELSE IF in_graph /\ line = <<RBRACKET>>
           THEN /\ in_graph' = FALSE
                /\ current_item' = <<>>
                /\ IF current_item # <<>>
                   THEN FlushItem(current_item)
                   ELSE /\ TBoxKeep
                        /\ UNCHANGED <<item_count, sampled_count, handed>>
           ELSE IF in_graph
           THEN /\ in_graph' = in_graph
                /\ IF StartsWith(line, <<SP, SP, LBRACE>>)
                   THEN /\ current_item' = SubSeq(line, 3, Len(line))
                        /\ IF current_item # <<>>
                           THEN FlushItem(current_item)
                           ELSE /\ TBoxKeep
                                /\ UNCHANGED <<item_count, sampled_count, handed>>
                   ELSE /\ current_item' = current_item \o line
                        /\ TBoxKeep
                        /\ UNCHANGED <<item_count, sampled_count, handed>>
           ELSE /\ TBoxKeep
                /\ UNCHANGED <<in_graph, current_item, item_count, sampled_count, handed>>
    /\ UNCHANGED <<input_file, large_file, tb_sample_size, tb_random_sample,
                   graph_data, tb_pc, tbox_files>>
    /\ UNCHANGED <<ntVars, reservoirVars, mainVars>>

LargeEnd ==
    /\ tb_pc = "lines"
    /\ tb_pos = Len(input_file)
    /\ tb_pc' = "save"
    /\ TBoxKeep
    /\ UNCHANGED <<input_file, large_file, tb_sample_size, tb_random_sample, tb_pos,
                   in_graph, current_item, item_count, sampled_count, graph_data,
                   tbox_files, handed>>
    /\ UNCHANGED <<ntVars, reservoirVars, mainVars>>

\* lines 129-133: the CSV files, and the return
TBoxSave ==
    /\ tb_pc = "save"
    /\ tbox_files' = _save_to_csv(entity_mapping, tbox_relationships)
    /\ tb_pc' = "done"
    /\ TBoxKeep
    /\ UNCHANGED <<input_file, large_file, tb_sample_size, tb_random_sample, tb_pos,
                   in_graph, current_item, item_count, sampled_count, graph_data,
                   handed>>
    /\ UNCHANGED <<ntVars, reservoirVars, mainVars>>

-----------------------------------------------------------------------------
(* A run of either program *)

Init ==
    /\ ReservoirIdle
    /\ openable \in BOOLEAN
    /\ exit_status = NoStatus
    /\ \/ NtInit /\ TBoxIdle
       \/ NtIdle /\ TBoxInit

Next ==
    \/ OpenFiles
    \/ SkipLine \/ ScanLine \/ EndOfFile \/ FlushAndWrite \/ SaveNeo4j
    \/ NtMain
    \/ OpenFails
    \/ LoadDirect \/ DirectItem \/ DirectEnd
    \/ OpenLarge \/ LargeLine \/ LargeEnd
    \/ TBoxSave
    \/ TBoxMain

Spec == Init /\ [][Next]_vars

-----------------------------------------------------------------------------
(* Properties of the N-Triples run *)

ValidLines(f) == SelectSeq(f, LAMBDA l : ~IsSkipped(l))

FirstN(s, k) == SubSeq(s, 1, IF k < Len(s) THEN k ELSE Len(s))

Range(s) == {s[i] : i \in DOMAIN s}

ScanEnded == pc \in {"final", "save", "done"}

\* C1: during an N-Triples run, in head mode and in reservoir mode and for
\* every sample_size >= 0, the sample never holds more than sample_size lines.
C1_SampleBounded == Len(sampled_triples) <= sample_size

\* a full reservoir that has met a further valid line
C1_Witness ==
    /\ random_sample
    /\ sample_size >= 1
    /\ Len(sampled_triples) = sample_size
    /\ valid_line_count > sample_size

\* C2: in head mode the sample is, at every point, the first
\* min(sample_size, n) of the n valid lines read so far, and once the scan has
\* ended it is the first min(sample_size, N) valid lines of the file, in order.
C2_HeadSampleIsPrefix ==
    (pc # "idle" /\ ~random_sample) =>
        /\ sampled_triples = FirstN(ValidLines(SubSeq(file, 1, line_count)), sample_size)
        /\ ScanEnded => sampled_triples = FirstN(ValidLines(file), sample_size)

\* a head-mode scan stopped by a full sample, after a skipped line, with valid
\* lines beyond the sample
C2_Witness ==
    /\ ~random_sample
    /\ ScanEnded
    /\ sample_size >= 1
    /\ Len(ValidLines(file)) > sample_size
    /\ Len(sampled_triples) = sample_size
    /\ \E i \in 1 .. line_count : IsSkipped(file[i])

\* C4: every line handed to process_chunk, and every line pending in the
\* chunk, was inserted into the sample when it was read.
C4_ProcessedWereAdmitted ==
    /\ Range(processed) \subseteq Range(admitted)
    /\ Range(chunk_src) \subseteq Range(admitted)

\* a reservoir run that processed a line and left another valid line out
C4_Witness ==
    /\ random_sample
    /\ processed # <<>>
    /\ \E i \in 1 .. line_count : ~IsSkipped(file[i]) /\ i \notin Range(admitted)

AllRecords(em) == UNION {Range(em[k]) : k \in DOMAIN em}

EmittedIds(files) ==
    UNION {{files[k][i][1] : i \in DOMAIN files[k]} : k \in DOMAIN files \ {"relationships"}}

\* C5: at every point each relationship's from_id and to_id are ids of
\* records of entity_map, and when the run has written its files both ids of
\* every relationship row are in the entity rows written by that run.
C5_EndpointsExist ==
    /\ \A i \in DOMAIN relationships :
          /\ \E r \in AllRecords(entity_map) : r.id = relationships[i].from_id
          /\ \E r \in AllRecords(entity_map) : r.id = relationships[i].to_id
    /\ (pc = "done" /\ "relationships" \in DOMAIN neo4j_files) =>
          \A i \in DOMAIN neo4j_files["relationships"] :
              /\ neo4j_files["relationships"][i][1] \in EmittedIds(neo4j_files)
              /\ neo4j_files["relationships"][i][2] \in EmittedIds(neo4j_files)

\* a finished run that wrote a relationship
C5_Witness == pc = "done" /\ "relationships" \in DOMAIN neo4j_files

RecordsOf(em, uri) ==
    UNION {{<<k, r.id>> : r \in {x \in Range(em[k]) : x.uri = uri}} : k \in DOMAIN em}

Uris == {U1, P1, C1}

\* C6: once a URI has a record, every later step leaves it with exactly that
\* one record (same map, same id), and the id add_relationship resolves for it
\* does not change.
C6_OneRecordPerUri ==
    [][\A u \in Uris :
          RecordsOf(entity_map, u) # {} =>
              /\ RecordsOf(entity_map', u) = RecordsOf(entity_map, u)
              /\ Cardinality(RecordsOf(entity_map', u)) = 1
              /\ FindId(entity_map', u) = FindId(entity_map, u)]_vars

\* the URI typed twice, by different types
C6_Witness ==
    \E u \in Uris : Cardinality(RecordsOf(entity_map, u)) > 1

\* the ids held by the per-type maps em, each with the place that holds it
IdsIn(em) ==
    UNION {{<<k, i, em[k][i].id>> : i \in DOMAIN em[k]} : k \in DOMAIN em}

\* C7: no two distinct entity records of a run share an id, within one
\* per-type map or across the per-type maps, in the N-Triples maps
\* (entity_map) and in the TBox maps (entity_mapping).
C7_NoSharedId ==
    \A maps \in {IdsIn(entity_map), IdsIn(entity_mapping)} :
        \A a, b \in maps : a[3] = b[3] => a = b

\* a finished N-Triples run that created two records in one map, and a
\* record in another
C7_Witness ==
    /\ pc = "done"
    /\ \E k \in KeySet : Len(entity_map[k]) >= 2
    /\ Cardinality({k \in KeySet : entity_map[k] # <<>>}) >= 2

\* a JSON-LD run that created two records in one map
C7_TBoxRecords == \E k \in MappingKeys : Len(entity_mapping[k]) >= 2

\* the rdf:type triples of the inputs, and the typed JSON-LD items
TypeLines == {l \in Alphabet : Matches(l) /\ EndsWith(l.p, "type")}
TypedItems == {json_loads(<<LBRACE>> \o Flatten(MemberLines(i, 0, FALSE)) \o <<RBRACE>>).val :
                  i \in ItemSet \ {ItemNoId}}

\* the processor after the item has been handed to _process_jsonld_item
\* twice: in the large-file path each call has an except clause of its own,
\* in the direct path an exception ends the loop
TwiceItem(item, st) ==
    LET st1 == _process_jsonld_item(item, st)
    IN  IF st1.raised /\ ~large_file THEN st1
        ELSE _process_jsonld_item(item, [st1 EXCEPT !.raised = FALSE])

\* C8: processing the same well-formed rdf:type triple twice, or the same
\* JSON-LD item twice, in one run leaves exactly one entity record for its
\* URI, and the entity maps and id counters after the second processing equal
\* those after the first.  Stated from every state of a run in which the URI
\* has not been met yet.
C8_TwiceIsOnce ==
    /\ pc \in {"loop", "final"} =>
          \A l \in TypeLines :
              RecordsOf(entity_map, l.s) = {} =>
                  LET st0 == ProcState(entity_map, entity_counts, relationships, rel_log)
                      st1 == process_chunk(<<l>>, st0)
                      st2 == process_chunk(<<l, l>>, st0)
                  IN  /\ Cardinality(RecordsOf(st2.entity_map, l.s)) = 1
                      /\ st2.entity_map = st1.entity_map
                      /\ st2.entity_counts = st1.entity_counts
    /\ tb_pc \in {"items", "lines"} =>
          \A item \in TypedItems :
              item["@id"] \notin processed_uris =>
                  LET st1 == _process_jsonld_item(item, CurrentTBox)
                      st2 == TwiceItem(item, CurrentTBox)
                  IN  /\ Cardinality(RecordsOf(st2.entity_mapping, item["@id"])) = 1
                      /\ st2.entity_mapping = st1.entity_mapping
                      /\ st2.entity_counts = st1.entity_counts

\* a run was handed the same item twice and holds no record for its URI
C8_Witness ==
    \E i, j \in DOMAIN handed :
        /\ i < j
        /\ handed[i].item = handed[j].item
        /\ "@id" \in DOMAIN handed[i].item
        /\ "@type" \in DOMAIN handed[i].item
        /\ RecordsOf(entity_mapping, handed[i].item["@id"]) = {}

\* C9: a relation triple met while an endpoint has no record adds no
\* relationship, then or later: the relationship list holds exactly one entry
\* per relation triple whose two endpoints had records when it was processed.
C9_UnresolvedDropped ==
    Len(relationships) = Cardinality({i \in DOMAIN rel_log : rel_log[i].resolved})

\* a dropped triple whose endpoints both have records by the end of the run
C9_Witness ==
    /\ pc = "done"
    /\ \E i \in DOMAIN rel_log :
          /\ ~rel_log[i].resolved
          /\ FindId(entity_map, rel_log[i].s) # None
          /\ FindId(entity_map, rel_log[i].o) # None

ScenarioA == <<TypeLine(U1, SchemaUser), NameLine(U1)>>

HasProperty(r, k, v) ==
    /\ "properties" \in DOMAIN r
    /\ k \in DOMAIN r.properties
    /\ r.properties[k] = v

\* C10: the run over scenario A (u1 typed User, then u1 name "Alice") ends
\* with exactly one record, a User, whose properties map name to "Alice".
C10_ScenarioA ==
    (file = ScenarioA /\ sample_size >= 2 /\ pc \in {"done", "failed"}) =>
        /\ pc = "done"
        /\ Cardinality(AllRecords(entity_map)) = 1
        /\ \E r \in Range(entity_map["users"]) : HasProperty(r, <<"name">>, <<"Alice">>)

\* the run over scenario A has ended
C10_Witness == file = ScenarioA /\ sample_size >= 2 /\ pc \in {"done", "failed"}

-----------------------------------------------------------------------------
(* Properties of the JSON-LD run *)

\* process_jsonld_file has returned
TBoxEnded == tb_pc \in {"done", "failed"}

\* a well-formed document whose @graph holds the one item
\*   { "@id" : "http://ex/b1", "@type" : "owl:Class", "rdfs:label" : "Nike" }
OneClassDocument == Pretty(<<ItemClassB1>>)

\* C11: a run of process_jsonld_file over a document whose @graph holds one
\* item with an @id, @type owl:Class and rdfs:label L ends with exactly one
\* entity record, of type Class, with name = label = L, and that record is
\* in the classes output of the run.
C11_ClassEndToEnd ==
    (input_file = OneClassDocument /\ tb_sample_size >= 1 /\ TBoxEnded) =>
        /\ tb_pc = "done"
        /\ Len(entity_mapping["classes"]) = 1
        /\ entity_mapping["concepts"] = <<>> /\ entity_mapping["properties"] = <<>>
        /\ entity_mapping["classes"][1].uri = B1
        /\ entity_mapping["classes"][1].name = <<"Nike">>
        /\ entity_mapping["classes"][1].label = <<"Nike">>
        /\ "classes" \in DOMAIN tbox_files
        /\ tbox_files["classes"] =
               <<<<entity_mapping["classes"][1].id, B1, <<"Nike">>, <<"Nike">>, <<>>, "Class">>>>

\* the run over that document has returned, in the direct path
C11_Witness ==
    input_file = OneClassDocument /\ tb_sample_size >= 1 /\ TBoxEnded /\ ~large_file

\* C12: a head-mode run over an .nt file with at least sample_size valid
\* (non-blank, non-comment) lines writes a sample file of exactly sample_size
\* lines, the first sample_size valid lines of the input in order, whatever
\* triples those lines hold.
C12_HeadSampleWritten ==
    (/\ openable /\ ~random_sample /\ Len(ValidLines(file)) >= sample_size
     /\ pc \in {"done", "failed"}) =>
        /\ pc = "done"
        /\ out_file = FirstN(ValidLines(file), sample_size)

\* such a run has ended, over a file that holds a literal-valued triple or
\* the type triple of a Category among its first sample_size valid lines
C12_Witness ==
    /\ ~random_sample /\ Len(ValidLines(file)) >= sample_size
    /\ pc \in {"done", "failed"}
    /\ \E i \in 1 .. sample_size :
           ValidLines(file)[i] \in {NameLine(U1), TypeLine(C1, SchemaCategory)}

\* the same run over the lines whose handlers the module defines
C12_DefinedHandlers ==
    (/\ ~random_sample /\ Len(ValidLines(file)) >= sample_size
     /\ pc = "done"
     /\ \A i \in DOMAIN file :
            file[i] \notin {NameLine(U1), TypeLine(C1, SchemaCategory)}) =>
        out_file = FirstN(ValidLines(file), sample_size)

\* C13: an error raised while parsing or classifying one line or one item
\* (inside process_chunk / process_triple, or inside _process_jsonld_item in
\* either JSON-LD path) is caught for that item alone: the items after it are
\* still processed, and the run still writes its output files and returns
\* them.  So a run over a file that can be opened ends with its files
\* written, every admitted line processed and every selected element handed
\* to _process_jsonld_item.
C13_ErrorsIsolated ==
    /\ (openable /\ pc \in {"done", "failed"}) =>
          /\ pc = "done"
          /\ Range(processed) = Range(admitted)
          /\ out_file = sampled_triples
          /\ neo4j_files = save_to_neo4j_format(entity_map, relationships)
    /\ (TBoxEnded /\ \E i \in DOMAIN handed : handed[i].raised) =>
          /\ tb_pc = "done"
          /\ ~large_file => Len(handed) = Len(graph_data)
          /\ tbox_files = _save_to_csv(entity_mapping, tbox_relationships)

\* an N-Triples run over a readable file has ended on a raised error
C13_Witness == openable /\ pc = "failed"

\* the JSON-LD half alone, in the large-file path
C13_LargePathIsolated ==
    (large_file /\ TBoxEnded /\ \E i \in DOMAIN handed : handed[i].raised) =>
        /\ tb_pc = "done"
        /\ tbox_files = _save_to_csv(entity_mapping, tbox_relationships)

\* a large-file run that caught an error and went on to a later item
C13_LargePathCaught ==
    /\ large_file /\ tb_pc = "done"
    /\ \E i, j \in DOMAIN handed : i < j /\ handed[i].raised

\* C14: when the input file cannot be opened, the command-line run for that
\* file (main of process_large_rar.py, main of process_tbox_jsonld.py) ends
\* with a non-zero exit status.
C14_MissingFileStatus ==
    (~openable /\ exit_status # NoStatus) => exit_status[1] # 0

\* a command-line run over a file that cannot be opened has ended
C14_Witness == ~openable /\ exit_status # NoStatus /\ pc = "failed"

\* the same for the JSON-LD command
C14_TBoxEnded == ~openable /\ exit_status # NoStatus /\ tb_pc = "failed"

\* C16: in a JSON-LD run, in the direct path and in the large-file path, in
\* head mode and in random mode and for every sample_size >= 0, the number of
\* graph elements handed to per-item processing never exceeds sample_size.
C16_HandedBounded == Len(handed) <= tb_sample_size

\* a run has handed as many elements as the sample size, and there are more
C16_Witness ==
    /\ tb_pc \in {"items", "lines"}
    /\ tb_sample_size >= 1
    /\ Len(handed) = tb_sample_size
    /\ (~large_file => tb_pos < Len(graph_data))
    /\ (large_file => tb_pos < Len(input_file))

\* the direct path with a positive sample size, or in random mode
C16_DirectBounded ==
    (~large_file /\ (tb_random_sample \/ tb_sample_size > 0)) =>
        Len(handed) <= tb_sample_size

\* the large-file path in head mode counts the calls that returned
C16_LargeHeadCounted ==
    (large_file /\ ~tb_random_sample) =>
        /\ sampled_count <= tb_sample_size
        /\ sampled_count = Cardinality({i \in DOMAIN handed : ~handed[i].raised})

\* the file is a JSON document with an @graph array
WellFormed(lines) ==
    json_load(lines).ok /\ "@graph" \in DOMAIN json_load(lines).val

\* the elements of the @graph array of a well-formed document
GraphOf(lines) == json_load(lines).val["@graph"]

\* the items that were handed to _process_jsonld_item, in order
HandedItems == [i \in DOMAIN handed |-> handed[i].item]

\* C17: for the same well-formed pretty-printed document and the same
\* head-mode sample size, the large-file path hands the same sequence of
\* graph elements to per-item processing as _process_jsonld_graph is given
\* to process in the direct path: each element of the @graph array, once,
\* up to sample_size elements.
C17_PathsAgree ==
    (/\ large_file /\ ~tb_random_sample /\ tb_pc = "done"
     /\ openable /\ WellFormed(input_file)) =>
        HandedItems \in SelectGraph(GraphOf(input_file), tb_sample_size, FALSE)

\* the large-file path has ended over a well-formed document of two items
C17_Witness ==
    /\ large_file /\ ~tb_random_sample /\ tb_pc = "done" /\ tb_sample_size >= 1
    /\ openable /\ WellFormed(input_file)
    /\ Len(GraphOf(input_file)) >= 2

\* what the large-file path makes of a well-formed document: no element
C17_NothingReconstructed ==
    (large_file /\ openable /\ WellFormed(input_file)) =>
        item_count = 0 /\ handed = <<>>

\* a is an initial part of b
IsPrefix(a, b) == Len(a) <= Len(b) /\ SubSeq(b, 1, Len(a)) = a

\* C21: no step of a run removes or replaces an entry of a per-type entity
\* map or of the relationship list: every record of a map or of the list is
\* in it, unchanged and at its place, after the step, so the sizes never
\* decrease (N-Triples maps and TBox maps).
C21_CollectionsOnlyGrow ==
    [][/\ \A k \in KeySet : IsPrefix(entity_map[k], entity_map'[k])
       /\ IsPrefix(relationships, relationships')
       /\ \A k \in MappingKeys : IsPrefix(entity_mapping[k], entity_mapping'[k])
       /\ IsPrefix(tbox_relationships, tbox_relationships')]_vars

\* a run has added a second record to a map that held one, and a
\* relationship after that
C21_Witness ==
    /\ Len(entity_map["products"]) >= 2
    /\ relationships # <<>>
    /\ pc = "done"

\* a JSON-LD run has added a second record to a map that held one
C21_TBoxGrown == Len(entity_mapping["classes"]) >= 2 /\ tb_pc = "done"

-----------------------------------------------------------------------------
(* The reservoir under every outcome of the draws.                         *)
(* r_dist holds one copy of the reservoir for each sequence of draws j of  *)
(* lines 151-163; the n-th valid line is named by its number n.  All       *)
(* copies have the same length, so every sequence of draws up to a given   *)
(* line is equally likely and counting copies measures probability.        *)

RECURSIVE Weight(_, _)
Weight(pairs, dist) ==
    IF pairs = {}
    THEN 0
    ELSE LET p == CHOOSE q \in pairs : TRUE
         IN  dist[p[1]] + Weight(pairs \ {p}, dist)

\* every reservoir of dist, after the n-th valid line, under every draw
StepAll(dist, n, size) ==
    LET pairs  == {p \in (DOMAIN dist) \X (0 .. n) : p[2] \in Draws(p[1], n, size, TRUE)}
        out(p) == ReservoirStep(p[1], n, n, p[2], size)
        res    == {out(p).sampled : p \in pairs}
    IN  [dist |-> [r \in res |-> Weight({p \in pairs : out(p).sampled = r}, dist)],
         stop |-> \E p \in pairs : out(p).stop]

ReservoirInit ==
    /\ NtIdle
    /\ TBoxIdle
    /\ openable = TRUE
    /\ exit_status = NoStatus
    /\ r_file \in Files({BlankLine, JunkLine}, MaxStream)
    /\ r_size \in 0 .. MaxSample
    /\ r_pos = 0
    /\ r_n = 0
    /\ r_stop = FALSE
    /\ r_dist = SetToBag({<<>>})

ReservoirSkip ==
    /\ ~r_stop
    /\ r_pos < Len(r_file)
    /\ IsSkipped(r_file[r_pos + 1])
    /\ r_pos' = r_pos + 1
    /\ UNCHANGED <<r_file, r_size, r_n, r_stop, r_dist>>
    /\ UNCHANGED <<ntVars, tboxVars, mainVars>>

ReservoirScan ==
    /\ ~r_stop
    /\ r_pos < Len(r_file)
    /\ ~IsSkipped(r_file[r_pos + 1])
    /\ LET a == StepAll(r_dist, r_n + 1, r_size)
       IN  /\ r_dist' = a.dist
           /\ r_stop' = a.stop
    /\ r_pos' = r_pos + 1
    /\ r_n' = r_n + 1
    /\ UNCHANGED <<r_file, r_size>>
    /\ UNCHANGED <<ntVars, tboxVars, mainVars>>

ReservoirNext == ReservoirSkip \/ ReservoirScan

ReservoirSpec == ReservoirInit /\ [][ReservoirNext]_vars

\* copies of the reservoir that hold line i
Holding(dist, i) == {r \in DOMAIN dist : \E k \in DOMAIN r : r[k] = i}

RECURSIVE Copies(_, _)
Copies(rs, dist) ==
    IF rs = {}
    THEN 0
    ELSE LET r == CHOOSE q \in rs : TRUE
         IN  dist[r] + Copies(rs \ {r}, dist)

\* C3: after n >= sample_size valid lines, each of the n lines is in the
\* reservoir in the fraction sample_size / n of the equally likely outcomes of
\* the draws.
C3_ReservoirUniform ==
    r_n >= r_size =>
        \A i \in 1 .. r_n :
            Copies(Holding(r_dist, i), r_dist) * r_n = r_size * BagCardinality(r_dist)

\* a reservoir of two slots that has met four valid lines and a skipped one
C3_Witness ==
    /\ r_size = 2
    /\ r_n >= 4
    /\ r_pos > r_n

-----------------------------------------------------------------------------
(* The writers on their own: save_to_neo4j_format(entity_map, relationships) *)
(* and TBoxProcessor._save_to_csv take the collections as they are given    *)
(* them.  WriterSpec starts at the call, over every combination of empty    *)
(* and non-empty collections.                                               *)

\* entity_counts key of an entity_map key
CountKeyOf(key) ==
    CASE key = "users" -> "user"
      [] key = "products" -> "product"
      [] key = "categories" -> "category"
      [] key = "brands" -> "brand"
      [] key = "scenes" -> "scene"
      [] key = "crowds" -> "crowd"
      [] key = "times" -> "time"
      [] key = "themes" -> "theme"
      [] key = "markets" -> "market"
      [] key = "placeOfOrigins" -> "placeOfOrigin"

InputUris == <<U1, P1, C1>>

\* the per-type map of n records, as the resolver builds them
EntitiesOf(key, n) ==
    [i \in 1 .. n |-> [uri |-> InputUris[i], id |-> <<CountKeyOf(key), i - 1>>,
                       label |-> LocalName(InputUris[i])]]

RelationshipsOf(n) ==
    [i \in 1 .. n |-> [from_id |-> <<"user", 0>>, to_id |-> <<"product", i - 1>>,
                       type |-> <<"BELONGS_TO">>]]

\* the TBox map of n class, concept or property records
TBoxEntitiesOf(key, n) ==
    [i \in 1 .. n |-> [id |-> <<key, i - 1>>, uri |-> InputUris[i],
                       name |-> LocalName(InputUris[i]), label |-> None,
                       description |-> None]]

TBoxRelationshipsOf(n) ==
    [i \in 1 .. n |-> [from_id |-> <<"classes", 0>>, to_id |-> <<"classes", i - 1>>,
                       type |-> <<"SUBCLASS_OF">>]]

\* process_large_nt_file at line 222
NtAtSave ==
    /\ file = <<>>
    /\ sample_size = 0
    /\ chunk_size = 1
    /\ random_sample = FALSE
    /\ pc = "save"
    /\ line_count = 0
    /\ valid_line_count = 0
    /\ sampled_triples = <<>>
    /\ current_chunk = <<>>
    /\ chunk_line_count = 0
    /\ \E sizes \in [KeySet -> 0 .. MaxRecords] :
          /\ entity_map = [k \in KeySet |-> EntitiesOf(k, sizes[k])]
          /\ entity_counts = [k \in CountKeys |->
                                 sizes[CHOOSE e \in KeySet : CountKeyOf(e) = k]]
    /\ \E n \in 0 .. MaxRecords : relationships = RelationshipsOf(n)
    /\ out_file = <<>>
    /\ neo4j_files = NoFiles
    /\ admitted = <<>>
    /\ chunk_src = <<>>
    /\ processed = <<>>
    /\ rel_log = <<>>
    /\ draws = <<>>

\* process_jsonld_file at line 130
TBoxAtSave ==
    /\ input_file = Pretty(<<>>)
    /\ large_file = FALSE
    /\ tb_sample_size = 0
    /\ tb_random_sample = FALSE
    /\ tb_pc = "save"
    /\ tb_pos = 0
    /\ in_graph = FALSE
    /\ current_item = <<>>
    /\ item_count = 0
    /\ sampled_count = 0
    /\ graph_data = <<>>
    /\ \E sizes \in [MappingKeys -> 0 .. MaxRecords] :
          entity_mapping = [k \in MappingKeys |-> TBoxEntitiesOf(k, sizes[k])]
    /\ tbox_entity_counts = [k \in TBoxCountKeys |-> 0]
    /\ \E n \in 0 .. MaxRecords : tbox_relationships = TBoxRelationshipsOf(n)
    /\ processed_uris = {}
    /\ tbox_files = NoFiles
    /\ handed = <<>>

WriterInit ==
    /\ ReservoirIdle
    /\ openable = TRUE
    /\ exit_status = NoStatus
    /\ \/ NtAtSave /\ TBoxIdle
       \/ NtIdle /\ TBoxAtSave

WriterNext == SaveNeo4j \/ TBoxSave

WriterSpec == WriterInit /\ [][WriterNext]_vars

\* the files expected for the collections: one per non-empty per-type map,
\* one for a non-empty relationship list
ExpectedFiles(em, rels) ==
    {k \in DOMAIN em : em[k] # <<>>} \cup (IF rels # <<>> THEN {"relationships"} ELSE {})

\* files holds, for the collections, one row per record in insertion order
RowPerRecord(files, em, rels) ==
    \A k \in DOMAIN files :
        IF k = "relationships"
        THEN /\ Len(files[k]) = Len(rels)
             /\ \A i \in DOMAIN rels :
                    SubSeq(files[k][i], 1, 3) = <<rels[i].from_id, rels[i].to_id, rels[i].type>>
        ELSE /\ k \in DOMAIN em
             /\ Len(files[k]) = Len(em[k])
             /\ \A i \in DOMAIN em[k] : files[k][i][1] = em[k][i].id

C15_WrittenTypes ==
    /\ pc = "done" =>
          /\ DOMAIN neo4j_files =
                 ExpectedFiles([k \in WrittenKeys |-> entity_map[k]], relationships)
          /\ RowPerRecord(neo4j_files, entity_map, relationships)
    /\ tb_pc = "done" =>
          /\ DOMAIN tbox_files = ExpectedFiles(entity_mapping, tbox_relationships)
          /\ RowPerRecord(tbox_files, entity_mapping, tbox_relationships)

-----------------------------------------------------------------------------
(* The vocabulary of the classifier.  VocabSpec is the N-Triples run over   *)
(* files that type u1 as User and p1 as Product and then hold up to         *)
(* MaxVocab lines drawn from every type keyword and every relation          *)
(* predicate form; sample_size exceeds the file, so every line is sampled   *)
(* and processed.                                                           *)

\* the keywords process_triple tests, in its order; TypeKeywords[i] names
\* the type whose map is EntityKeys[i]
TypeKeywords == <<"User", "Product", "Category", "Brand", "Scene",
                  "Crowd", "Time", "Theme", "Market", "PlaceOfOrigin">>

SchemaOf(keyword) == <<"schema", "/", keyword>>

\* an object naming two types, and one naming none
SchemaProductUser == <<"schema", "/", "Product", "User">>
SchemaThing == <<"schema", "/", "Thing">>

\* the keys of rel_mapping
RelationKeys == {"hasCategory", "hasBrand", "belongsTo", "appliesTo",
                 "suitable_for_crowd", "suitable_for_scene", "suitable_for_time",
                 "hasTheme", "inMarket"}

\* predicates: http://ex/<key>, http://ex/appliesTo/<key>,
\* http://ex/hasBrandName, http://ex/hasCategory#main
VocabPredicates ==
    {<<"ex", "/", k>> : k \in RelationKeys}
    \cup {<<"ex", "/", "appliesTo", "/", k>> : k \in RelationKeys \ RelKeywords}
    \cup {<<"ex", "/", "hasBrand", "Name">>, <<"ex", "/", "hasCategory", "#", "main">>}

VocabAlphabet ==
    {BlankLine}
    \cup {TypeLine(C1, SchemaOf(TypeKeywords[i])) : i \in DOMAIN TypeKeywords}
    \cup {TypeLine(C1, SchemaProductUser), TypeLine(C1, SchemaThing)}
    \cup {MkLine("triple", U1, p, P1, "uri") : p \in VocabPredicates}

VocabPrefix == <<TypeLine(U1, SchemaUser), TypeLine(P1, SchemaProduct)>>

VocabInit ==
    /\ ReservoirIdle
    /\ TBoxIdle
    /\ openable = TRUE
    /\ exit_status = NoStatus
    /\ file \in {VocabPrefix \o rest : rest \in Files(VocabAlphabet, MaxVocab)}
    /\ sample_size = Len(file) + 1
    /\ chunk_size \in 1 .. MaxChunk
    /\ random_sample \in BOOLEAN
    /\ pc = "start"
    /\ line_count = 0
    /\ valid_line_count = 0
    /\ sampled_triples = <<>>
    /\ current_chunk = <<>>
    /\ chunk_line_count = 0
    /\ entity_map = [k \in KeySet |-> <<>>]
    /\ entity_counts = [k \in CountKeys |-> 0]
    /\ relationships = <<>>
    /\ out_file = <<>>
    /\ neo4j_files = NoFiles
    /\ admitted = <<>>
    /\ chunk_src = <<>>
    /\ processed = <<>>
    /\ rel_log = <<>>
    /\ draws = <<>>

VocabNext ==
    \/ OpenFiles
    \/ SkipLine \/ ScanLine \/ EndOfFile \/ FlushAndWrite \/ SaveNeo4j
    \/ NtMain

VocabSpec == VocabInit /\ [][VocabNext]_vars

\* position in TypeKeywords of the first keyword that occurs in obj, 0 when
\* none does
FirstKeyword(obj) ==
    LET hits == {i \in DOMAIN TypeKeywords : Contains(obj, TypeKeywords[i])}
    IN  IF hits = {} THEN 0 ELSE CHOOSE i \in hits : \A h \in hits : i <= h

\* the rdf:type triples of the file
TypeTriples == {i \in DOMAIN file : Matches(file[i]) /\ EndsWith(file[i].p, "type")}

\* C18: for an rdf:type triple the subject gets an entity record of the type
\* of the first keyword of User, Product, Category, Brand, Scene, Crowd,
\* Time, Theme, Market, PlaceOfOrigin that occurs in the object, for each of
\* the ten; an object that holds none creates no record.  So when the run
\* has ended, a URI has a record in a type's map exactly if a type triple of
\* the file names it with that type's keyword first.
C18_FirstKeywordTyped ==
    pc \in {"done", "failed"} =>
        \A u \in Uris : \A k \in DOMAIN EntityKeys :
            InMap(entity_map[EntityKeys[k]], u)
                <=> \E i \in TypeTriples : file[i].s = u /\ FirstKeyword(file[i].o) = k

\* the run has ended over a file that types c1 as a Crowd
C18_Witness ==
    /\ pc \in {"done", "failed"}
    /\ \E i \in TypeTriples : file[i].o = SchemaOf("Crowd")

\* the same for files that name no type beyond User and Product
C18_DefinedTypes ==
    (/\ pc \in {"done", "failed"}
     /\ \A i \in TypeTriples : FirstKeyword(file[i].o) \in {0, 1, 2}) =>
        \A u \in Uris : \A k \in DOMAIN EntityKeys :
            InMap(entity_map[EntityKeys[k]], u)
                <=> \E i \in TypeTriples : file[i].s = u /\ FirstKeyword(file[i].o) = k

\* such a run has typed c1 by an object naming Product and User, as a User
C18_BothKeywords ==
    /\ pc = "done" /\ InMap(entity_map["users"], C1)
    /\ \E i \in TypeTriples : file[i].o = SchemaProductUser

-----------------------------------------------------------------------------
(* The type tags of JSON-LD items.  TagSpec is the JSON-LD run over        *)
(* documents of up to MaxTagged items, each typed by one of the five tags   *)
(* in its prefixed or its fully-qualified form.                             *)

RdfPropertyIri == <<"http:", "/", "/", "www.w3.org", "/", "1999", "/", "02", "/",
                    "22-rdf-syntax-ns", "#", "Property">>
OwlObjectPropertyIri == <<"http:", "/", "/", "www.w3.org", "/", "2002", "/", "07", "/",
                          "owl", "#", "ObjectProperty">>
OwlDatatypePropertyIri == <<"http:", "/", "/", "www.w3.org", "/", "2002", "/", "07", "/",
                            "owl", "#", "DatatypeProperty">>

\* tag -> <<prefixed form, fully-qualified form>>
TagForms ==
    {<<OwlClass, OwlClassIri>>, <<SkosConcept, SkosConceptIri>>,
     <<RdfProperty, RdfPropertyIri>>, <<OwlObjectProperty, OwlObjectPropertyIri>>,
     <<OwlDatatypeProperty, OwlDatatypePropertyIri>>}

TaggedItem(type) == <<Pair("@id", B1), Pair("@type", type)>>

TaggedItems == {TaggedItem(f[1]) : f \in TagForms} \cup {TaggedItem(f[2]) : f \in TagForms}
               \cup {ItemNoId}

TaggedDocuments ==
    LET lists == UNION {[1 .. n -> TaggedItems] : n \in 0 .. MaxTagged}
    IN  {Pretty(l) : l \in lists} \cup {Bare(l) : l \in lists}

TagInit ==
    /\ ReservoirIdle
    /\ NtIdle
    /\ openable = TRUE
    /\ exit_status = NoStatus
    /\ input_file \in TaggedDocuments
    /\ large_file \in BOOLEAN
    /\ tb_sample_size \in 0 .. MaxSample
    /\ tb_random_sample \in BOOLEAN
    /\ tb_pc = "start"
    /\ tb_pos = 0
    /\ in_graph = FALSE
    /\ current_item = <<>>
    /\ item_count = 0
    /\ sampled_count = 0
    /\ graph_data = <<>>
    /\ entity_mapping = [k \in MappingKeys |-> <<>>]
    /\ tbox_entity_counts = [k \in TBoxCountKeys |-> 0]
    /\ tbox_relationships = <<>>
    /\ processed_uris = {}
    /\ tbox_files = NoFiles
    /\ handed = <<>>

TagNext ==
    \/ LoadDirect \/ DirectItem \/ DirectEnd
    \/ OpenLarge \/ LargeLine \/ LargeEnd
    \/ TBoxSave
    \/ TBoxMain

TagSpec == TagInit /\ [][TagNext]_vars

\* the classification of the prefixed form of each tag
BranchOfPrefixed(type) ==
    CASE type = OwlClass -> "class"
      [] type = SkosConcept -> "concept"
      [] type \in {RdfProperty, OwlObjectProperty, OwlDatatypeProperty} -> "property"

\* C19: an item's @type is recognised in its prefixed form and in its
\* fully-qualified IRI form for each of the tags owl:Class, skos:Concept,
\* rdf:Property, owl:ObjectProperty and owl:DatatypeProperty: an item typed
\* by the full IRI is classified as one typed by the prefixed name.
C19_BothFormsRecognised ==
    \A i \in DOMAIN handed :
        (handed[i].branch # "skipped" /\ "@type" \in DOMAIN handed[i].item) =>
            \A f \in TagForms :
                handed[i].item["@type"] \in {f[1], f[2]} =>
                    handed[i].branch = BranchOfPrefixed(f[1])

\* an item typed by the full IRI of owl:ObjectProperty has been classified
C19_Witness ==
    \E i \in DOMAIN handed :
        /\ handed[i].branch # "skipped"
        /\ "@type" \in DOMAIN handed[i].item
        /\ handed[i].item["@type"] = OwlObjectPropertyIri

\* the same for the two tags whose IRI the code lists
C19_ClassAndConceptForms ==
    \A i \in DOMAIN handed :
        (handed[i].branch # "skipped" /\ "@type" \in DOMAIN handed[i].item) =>
            \A f \in {<<OwlClass, OwlClassIri>>, <<SkosConcept, SkosConceptIri>>} :
                handed[i].item["@type"] \in {f[1], f[2]} =>
                    handed[i].branch = BranchOfPrefixed(f[1])

\* an item typed by the full IRI of skos:Concept has been classified
C19_ConceptIriClassified ==
    \E i \in DOMAIN handed :
        /\ handed[i].branch = "concept"
        /\ handed[i].item["@type"] = SkosConceptIri

\* the relation triples that were processed with both endpoints known, in
\* order: one per emitted relationship record
ResolvedTriples == SelectSeq(rel_log, LAMBDA e : e.resolved)

\* the table of the nine relation names
TableType(name) ==
    CASE name = <<"hasCategory">> -> <<"BELONGS_TO_CATEGORY">>
      [] name = <<"hasBrand">> -> <<"HAS_BRAND">>
      [] name = <<"belongsTo">> -> <<"BELONGS_TO">>
      [] name = <<"appliesTo">> -> <<"APPLIES_TO">>
      [] name = <<"suitable_for_crowd">> -> <<"SUITABLE_FOR_CROWD">>
      [] name = <<"suitable_for_scene">> -> <<"SUITABLE_FOR_SCENE">>
      [] name = <<"suitable_for_time">> -> <<"SUITABLE_FOR_TIME">>
      [] name = <<"hasTheme">> -> <<"HAS_THEME">>
      [] name = <<"inMarket">> -> <<"IN_MARKET">>

\* the text after the last '/' and the last '#'
AfterLast(s, sep) ==
    LET at == {i \in DOMAIN s : s[i] = sep}
    IN  IF at = {} THEN s
        ELSE SubSeq(s, (CHOOSE i \in at : \A k \in at : k <= i) + 1, Len(s))

\* C20: the type of every emitted relationship record is the table value for
\* the predicate's local name (the text after the last '/' and the last '#')
\* when that name is one of the nine keys hasCategory, hasBrand, belongsTo,
\* appliesTo, suitable_for_crowd, suitable_for_scene, suitable_for_time,
\* hasTheme, inMarket, and is otherwise the upper-cased local name.
C20_TypeFromLocalName ==
    /\ Len(relationships) = Len(ResolvedTriples)
    /\ \A i \in DOMAIN relationships :
           LET name == AfterLast(AfterLast(ResolvedTriples[i].p, "/"), "#")
           IN  relationships[i].type =
                   IF name \in {<<k>> : k \in RelationKeys}
                   THEN TableType(name)
                   ELSE [j \in DOMAIN name |-> UpperFragment(name[j])]

\* a run has emitted a relationship typed by the table from a name the
\* classifier does not test for, and one typed by upper-casing
C20_Witness ==
    /\ \E i \in DOMAIN relationships : relationships[i].type = <<"SUITABLE_FOR_CROWD">>
    /\ \E i \in DOMAIN relationships : relationships[i].type = <<"HASBRAND", "NAME">>

\* a run has typed a relationship by the name after '#'
C20_HashName ==
    \E i \in DOMAIN relationships : relationships[i].type = <<"MAIN">>

-----------------------------------------------------------------------------
(* The early stop of the reservoir.  StopSpec is the N-Triples run over    *)
(* files of up to MaxStop equal lines, long enough for the count of valid   *)
(* lines to reach ten times a sample size of one.                           *)

StopFiles ==
    {lead \o [i \in 1 .. n |-> l] :
        lead \in {<<>>, <<BlankLine>>}, n \in 0 .. MaxStop,
        l \in {JunkLine, TypeLine(U1, SchemaUser)}}

StopInit ==
    /\ ReservoirIdle
    /\ TBoxIdle
    /\ openable = TRUE
    /\ exit_status = NoStatus
    /\ file \in StopFiles
    /\ sample_size \in 0 .. MaxStopSample
    /\ chunk_size \in 1 .. MaxChunk
    /\ random_sample \in BOOLEAN
    /\ pc = "start"
    /\ line_count = 0
    /\ valid_line_count = 0
    /\ sampled_triples = <<>>
    /\ current_chunk = <<>>
    /\ chunk_line_count = 0
    /\ entity_map = [k \in KeySet |-> <<>>]
    /\ entity_counts = [k \in CountKeys |-> 0]
    /\ relationships = <<>>
    /\ out_file = <<>>
    /\ neo4j_files = NoFiles
    /\ admitted = <<>>
    /\ chunk_src = <<>>
    /\ processed = <<>>
    /\ rel_log = <<>>
    /\ draws = <<>>

StopNext ==
    \/ OpenFiles
    \/ SkipLine \/ ScanLine \/ EndOfFile \/ FlushAndWrite \/ SaveNeo4j
    \/ NtMain

StopSpec == StopInit /\ [][StopNext]_vars

C22_ChunkCycled ==
    pc = "loop" /\ processed # <<>> /\ current_chunk # <<>> /\ chunk_size >= 2

-----------------------------------------------------------------------------
(* Malformed graph elements.  BrokenSpec is the large-file path over        *)
(* documents of up to MaxBroken elements, some of them not JSON, with a     *)
(* sample size above the number of elements.                                *)

\* { "@id" : "http://ex/b2", , "@type" : "owl:Class" }
ItemBroken == <<Pair("@id", B2), COMMA, Pair("@type", OwlClass)>>

ItemClassB3 == <<Pair("@id", <<"http:", "/", "/", "ex", "/", "b3">>), Pair("@type", OwlClass)>>

BrokenLists == UNION {[1 .. n -> {ItemClassB1, ItemBroken, ItemClassB3}] : n \in 0 .. MaxBroken}

BrokenInit ==
    /\ ReservoirIdle
    /\ NtIdle
    /\ openable = TRUE
    /\ exit_status = NoStatus
    /\ input_file \in {Pretty(l) : l \in BrokenLists} \cup {Bare(l) : l \in BrokenLists}
    /\ large_file = TRUE
    /\ tb_sample_size = MaxBroken + 1
    /\ tb_random_sample \in BOOLEAN
    /\ tb_pc = "start"
    /\ tb_pos = 0
    /\ in_graph = FALSE
    /\ current_item = <<>>
    /\ item_count = 0
    /\ sampled_count = 0
    /\ graph_data = <<>>
    /\ entity_mapping = [k \in MappingKeys |-> <<>>]
    /\ tbox_entity_counts = [k \in TBoxCountKeys |-> 0]
    /\ tbox_relationships = <<>>
    /\ processed_uris = {}
    /\ tbox_files = NoFiles
    /\ handed = <<>>

BrokenNext == OpenLarge \/ LargeLine \/ LargeEnd \/ TBoxSave \/ TBoxMain

BrokenSpec == BrokenInit /\ [][BrokenNext]_vars

\* the elements the file was written from
ElementsOf(lines) == CHOOSE l \in BrokenLists : lines \in {Pretty(l), Bare(l)}

\* the text of one element as JSON
ElementJson(element) ==
    json_loads(<<LBRACE>> \o Flatten(MemberLines(element, 0, FALSE)) \o <<RBRACE>>)

\* the elements that are JSON, parsed, in order
ParsableOf(lines) ==
    LET good == SelectSeq(ElementsOf(lines), LAMBDA x : ElementJson(x).ok)
    IN  [i \in DOMAIN good |-> ElementJson(good[i]).val]

\* C23: in the large-file path, when the text of one graph element fails to
\* parse, only that element is skipped: the buffer is cleared, the item
\* counter is not advanced for it, and the elements after it in the same
\* @graph array are still reconstructed and processed.  So a head-mode run
\* whose sample size exceeds the number of elements counts and hands on
\* exactly the elements that parse, in order.
C23_OnlyBadElementSkipped ==
    (tb_pc = "done" /\ ~tb_random_sample) =>
        /\ current_item = <<>>
        /\ item_count = Len(ParsableOf(input_file))
        /\ HandedItems = ParsableOf(input_file)

\* the run has ended over one @graph array holding a malformed element and,
\* after it, one that parses
C23_Witness ==
    /\ tb_pc = "done" /\ ~tb_random_sample
    /\ \E l \in BrokenLists :
           /\ input_file = Pretty(l)
           /\ \E i, j \in DOMAIN l : i < j /\ l[i] = ItemBroken /\ l[j] # ItemBroken

\* the same for files that hold each element in a "@graph" : [ block of its
\* own: the block that fails to parse is skipped alone
C23_BlocksIsolated ==
    (/\ tb_pc = "done" /\ ~tb_random_sample
     /\ \E l \in BrokenLists : input_file = Bare(l)) =>
        /\ current_item = <<>>
        /\ item_count = Len(ParsableOf(input_file))
        /\ HandedItems = ParsableOf(input_file)

\* such a run has skipped a malformed block and handed on the one after it
C23_BlockSkipped ==
    /\ tb_pc = "done" /\ ~tb_random_sample /\ handed # <<>>
    /\ \E l \in BrokenLists :
           /\ input_file = Bare(l)
           /\ \E i, j \in DOMAIN l : i < j /\ l[i] = ItemBroken /\ l[j] # ItemBroken

\* the larger of two numbers
Larger(a, b) == IF a >= b THEN a ELSE b

\* C24: in reservoir mode the scan stops in the iteration in which the count
\* n of valid lines read reaches sample_size * 10 with the reservoir full: n
\* never exceeds max(sample_size * 10, 1), and no line after that one is
\* read, sampled or processed.
C24_EarlyStop ==
    random_sample =>
        /\ valid_line_count <= Larger(sample_size * 10, 1)
        /\ pc = "loop" => valid_line_count < Larger(sample_size * 10, 1)
        /\ valid_line_count = Larger(sample_size * 10, 1) =>
               /\ Len(sampled_triples) = sample_size
               /\ \A i \in Range(admitted) \cup Range(processed) : i <= line_count
               /\ Len(ValidLines(SubSeq(file, 1, line_count))) = valid_line_count
               /\ ~IsSkipped(file[line_count])

\* the scan was stopped at the tenth valid line of a longer file
C24_Witness ==
    /\ random_sample /\ sample_size = 1 /\ pc = "done"
    /\ valid_line_count = 10
    /\ Len(ValidLines(file)) > 10

\* with an empty reservoir the scan stops at the first valid line
C24_EmptyReservoir ==
    /\ random_sample /\ sample_size = 0 /\ pc = "done"
    /\ valid_line_count = 1
    /\ Len(ValidLines(file)) > 1

-----------------------------------------------------------------------------
(* The scan of process_large_nt_file as a function of the file, the slots *)
(* the draws chose and a chunk size c                                     *)

ReplayStart ==
    [n |-> 0, d |-> 0, sampled |-> <<>>, chunk |-> <<>>, count |-> 0, stopped |-> FALSE,
     st |-> ProcState([k \in KeySet |-> <<>>], [k \in CountKeys |-> 0], <<>>, <<>>)]

DrawAt(d) == IF d \in DOMAIN draws THEN draws[d] ELSE sample_size

ReplayLine(r, line, c) ==
    IF r.stopped \/ r.st.raised \/ IsSkipped(line)
    THEN r
    ELSE LET n     == r.n + 1
             drawn == random_sample /\ Len(r.sampled) >= sample_size
             j     == IF drawn THEN DrawAt(r.d + 1) ELSE 0
             s     == IF random_sample
                      THEN ReservoirStep(r.sampled, line, n, j, sample_size)
                      ELSE HeadStep(r.sampled, line, sample_size)
             chunk == ChunkAfter(r.chunk, s.took, line)
             count == IF s.took THEN r.count + 1 ELSE r.count
             full  == ~s.stop /\ ChunkFull(count, c)
             st    == IF full THEN process_chunk(chunk, r.st) ELSE r.st
         IN  [n |-> n,
              d |-> IF drawn THEN r.d + 1 ELSE r.d,
              sampled |-> s.sampled,
              chunk |-> IF full /\ ~st.raised THEN <<>> ELSE chunk,
              count |-> IF full /\ ~st.raised THEN 0 ELSE count,
              stopped |-> s.stop,
              st |-> st]

RECURSIVE ReplayScan(_, _, _)
ReplayScan(i, r, c) ==
    IF i > Len(file) THEN r ELSE ReplayScan(i + 1, ReplayLine(r, file[i], c), c)

ReplayRun(c) ==
    LET r  == ReplayScan(1, ReplayStart, c)
        st == IF r.chunk # <<>> /\ ~r.st.raised THEN process_chunk(r.chunk, r.st) ELSE r.st
    IN  [sample |-> r.sampled, entity_map |-> st.entity_map,
         relationships |-> st.relationships, raised |-> st.raised]

RunResult ==
    [sample |-> out_file, entity_map |-> entity_map,
     relationships |-> relationships, raised |-> FALSE]

\* C25: a run that returns has handed every admitted line to process_chunk
\* exactly once and in admission order, and its sample, entity maps and
\* relationship list are those of the same file and the same draws under
\* every other chunk size; a run that ends in the except clause does so
\* under every chunk size
C25_ChunkSizeIrrelevant ==
    /\ pc = "done" =>
           /\ processed = admitted
           /\ \A c \in 1 .. MaxChunk : ReplayRun(c) = RunResult
    /\ (pc = "failed" /\ openable) => \A c \in 1 .. MaxChunk : ReplayRun(c).raised

\* three admitted lines in chunks of two: one full chunk, one pending line,
\* and a reservoir whose slot was overwritten by a draw
C25_Witness ==
    /\ pc = "done"
    /\ chunk_size = 2
    /\ Len(admitted) = 3
    /\ draws # <<>>
    /\ relationships # <<>>

-----------------------------------------------------------------------------
(* Lines the reservoir has dropped *)

AdmittedLines == [i \in DOMAIN admitted |-> file[admitted[i]]]

DerivedGraph ==
    process_chunk(AdmittedLines,
                  ProcState([k \in KeySet |-> <<>>], [k \in CountKeys |-> 0], <<>>, <<>>))

RowIds(rows) == {rows[i][1] : i \in DOMAIN rows}

\* C26: in reservoir mode a run that returns has processed every line it
\* admitted, those the reservoir dropped later included: its entity maps and
\* relationship list are the ones derived from all admitted lines, and every
\* record and relationship of them is a row of the files written
C26_OverwrittenStayProcessed ==
    (random_sample /\ pc = "done") =>
        /\ processed = admitted
        /\ entity_map = DerivedGraph.entity_map
        /\ relationships = DerivedGraph.relationships
        /\ \A k \in WrittenKeys : \A i \in DOMAIN entity_map[k] :
              /\ k \in DOMAIN neo4j_files
              /\ entity_map[k][i].id \in RowIds(neo4j_files[k])
        /\ relationships # <<>> =>
              /\ "relationships" \in DOMAIN neo4j_files
              /\ Len(neo4j_files["relationships"]) = Len(relationships)

\* more lines processed than the sample holds, and two product rows written
\* while the line that declared one of them is absent from the sample file
C26_Witness ==
    /\ random_sample
    /\ pc = "done"
    /\ Len(processed) > sample_size
    /\ "products" \in DOMAIN neo4j_files
    /\ Len(neo4j_files["products"]) = 2
    /\ \E i \in Range(admitted) :
          /\ file[i] = TypeLine(P1, SchemaProduct)
          /\ file[i] \notin Range(out_file)

-----------------------------------------------------------------------------
(* Lines outside the triple grammar *)

Matching(lines) == SelectSeq(lines, Matches)

Derive(lines) ==
    process_chunk(lines,
                  ProcState([k \in KeySet |-> <<>>], [k \in CountKeys |-> 0], <<>>, <<>>))

\* C27: a non-blank, non-comment line outside the triple grammar is counted
\* as valid and takes a sample slot like any other (head mode writes the
\* first sample_size valid lines, such lines among them); the graph of a
\* returning run is the one derived from the admitted lines that match, and
\* a run ends in the except clause only where those lines alone raise
C27_JunkSampledNotParsed ==
    /\ valid_line_count = Len(ValidLines(SubSeq(file, 1, line_count)))
    /\ (~random_sample /\ pc = "done") => out_file = FirstN(ValidLines(file), sample_size)
    /\ Range(sampled_triples) \subseteq Range(ValidLines(file))
    /\ pc = "done" =>
          /\ entity_map = Derive(Matching(AdmittedLines)).entity_map
          /\ relationships = Derive(Matching(AdmittedLines)).relationships
    /\ (pc = "failed" /\ openable) => Derive(Matching(AdmittedLines)).raised

\* a returning head-mode run whose sample file holds a line outside the
\* grammar next to a line that created a user
C27_Witness ==
    /\ pc = "done"
    /\ ~random_sample
    /\ Len(out_file) = 2
    /\ out_file[1] = JunkLine
    /\ Len(entity_map["users"]) = 1
    /\ valid_line_count = 2

-----------------------------------------------------------------------------
(* Items that repeat an @id.  RepeatSpec is the JSON-LD run over documents  *)
(* of up to MaxRepeat items that share two @id values, one item carrying     *)
(* no @type at all; the sample is large enough to take every item.           *)

ItemUntypedB2 == <<Pair("@id", B2), Pair("rdfs:label", <<"Nike">>)>>

RepeatItems == {ItemUntypedB2, ItemClassB2, ItemClassB1, ItemNoId}

RepeatDocuments ==
    LET lists == UNION {[1 .. n -> RepeatItems] : n \in 0 .. MaxRepeat}
    IN  {Pretty(l) : l \in lists} \cup {Bare(l) : l \in lists}

RepeatInit ==
    /\ ReservoirIdle
    /\ NtIdle
    /\ openable = TRUE
    /\ exit_status = NoStatus
    /\ input_file \in RepeatDocuments
    /\ large_file \in BOOLEAN
    /\ tb_sample_size = MaxRepeat
    /\ tb_random_sample \in BOOLEAN
    /\ tb_pc = "start"
    /\ tb_pos = 0
    /\ in_graph = FALSE
    /\ current_item = <<>>
    /\ item_count = 0
    /\ sampled_count = 0
    /\ graph_data = <<>>
    /\ entity_mapping = [k \in MappingKeys |-> <<>>]
    /\ tbox_entity_counts = [k \in TBoxCountKeys |-> 0]
    /\ tbox_relationships = <<>>
    /\ processed_uris = {}
    /\ tbox_files = NoFiles
    /\ handed = <<>>

RepeatNext ==
    \/ LoadDirect \/ DirectItem \/ DirectEnd
    \/ OpenLarge \/ LargeLine \/ LargeEnd
    \/ TBoxSave
    \/ TBoxMain

RepeatSpec == RepeatInit /\ [][RepeatNext]_vars

IdOf(i) == Get(handed[i].item, "@id")

\* the call of _process_jsonld_item this step made was given an @id that an
\* earlier call had taken up
RepeatCall ==
    /\ Len(handed') = Len(handed) + 1
    /\ Get(handed'[Len(handed')].item, "@id") \in processed_uris

\* C28: of the calls of _process_jsonld_item given the same @id only the
\* first goes past the test of processed_uris, whatever @type its item had;
\* a later call returns at that test and leaves the entity mapping, the
\* counters, the relationship list and processed_uris as they were
C28_IdHandledOnce ==
    /\ [](\A i, j \in DOMAIN handed :
            (i < j /\ IdOf(i) # None /\ IdOf(i) = IdOf(j)) =>
                /\ handed[j].branch = "skipped"
                /\ ~handed[j].raised
                /\ handed[j].entity_mapping = handed[j - 1].entity_mapping
                /\ handed[j].entity_counts = handed[j - 1].entity_counts)
    /\ [][RepeatCall =>
            /\ entity_mapping' = entity_mapping
            /\ tbox_entity_counts' = tbox_entity_counts
            /\ tbox_relationships' = tbox_relationships
            /\ processed_uris' = processed_uris
            /\ tbox_files' = tbox_files]_vars

\* an item with an @id and no @type was taken up and created no record; the
\* class item with the same @id that follows it was handed over and ignored
C28_Witness ==
    /\ tb_pc = "done"
    /\ \E i, j \in DOMAIN handed :
          /\ i < j
          /\ IdOf(i) = B2
          /\ "@type" \notin DOMAIN handed[i].item
          /\ handed[i].branch = "none"
          /\ IdOf(j) = B2
          /\ Get(handed[j].item, "@type") = OwlClassIri
    /\ entity_mapping["classes"] = <<>>
    /\ "classes" \notin DOMAIN tbox_files

====
